---- MODULE Spec2Model ----
(***************************************************************************)
(* Model of the reminder engine and the period resolver of the "Meu        *)
(* Gestor" backend (src/main.py, src/send_reminders.py).                   *)
(*                                                                         *)
(* Time.  An instant is a whole number of minutes since                    *)
(* 2024-01-01 00:00 UTC.  Python's aware datetimes compare by instant, so  *)
(* the store keeps instants; wall-clock fields are computed on demand in   *)
(* the zone the code reads them in: UTC for rows loaded from the store and *)
(* for datetime.now(TZ_UTC), America/Sao_Paulo (UTC-03:00 in the modelled  *)
(* years, no daylight saving) after astimezone(TZ_SAO_PAULO).              *)
(***************************************************************************)
EXTENDS Integers, Sequences, FiniteSets, Bags, TLC

VARIABLES
    now,        \* the wall clock, read by datetime.now(...)
    reminders,  \* table "reminders": row id = index, committed rows only
    outbox,     \* bag of the calls made to send_whatsapp_message
    pc,         \* progress of the background tasks queued by trigger_reminders
    genLog,     \* what the last run of generate_monthly_reminders did
    quiet,      \* a tick has completed and nothing happened since
    query,      \* the period text of the last summary or listing request
    answer,     \* what the last chat action or API call answered
    expenses,   \* table "expenses": row id = index
    incomes,    \* table "incomes": row id = index
    planned,    \* table "planned_expenses": row id = index
    tokens,     \* table "auth_tokens": the token string = index
    dashboard,  \* DASHBOARD_URL is set in the environment
    scans,      \* the runs of check_and_send_reminders that overlap in time
    categories, \* table "categories": row id = index
    deleted     \* the rows deleted through the dashboard API

\* the tables of the ledger and of the dashboard login
ledger == <<expenses, incomes, planned, tokens, dashboard>>

\* the overlapping scans and what only the dashboard API touches
aside == <<scans, categories, deleted>>

vars == <<now, reminders, outbox, pc, genLog, quiet, query, answer, ledger,
          aside>>

-----------------------------------------------------------------------------
(* Bounds of the model.                                                    *)

\* rows the reminders table may hold
MaxReminders == 4
\* reminders created through the chat action
MaxCreated == 2
\* the largest N of a period text 'últimos N dias'
MaxDays == 30
\* login tokens issued
MaxTokens == 1
\* expenses and incomes registered
MaxEntries == 2
\* rows of the planned_expenses table
MaxPlanned == 2
-----------------------------------------------------------------------------
(* Calendar: datetime, timedelta and dateutil.relativedelta.               *)

\* offset of TZ_SAO_PAULO from UTC, in minutes
BrtOffset == 180

MinutesPerDay == 24 * 60

IsLeap(y) == ((y % 4) = 0 /\ (y % 100) # 0) \/ (y % 400) = 0

DaysInMonth(y, m) ==
    IF m = 2 THEN (IF IsLeap(y) THEN 29 ELSE 28)
    ELSE IF m \in {4, 6, 9, 11} THEN 30 ELSE 31

\* days from 2024-01-01 to the first day of each month, 2024-01 to 2027-01
\* (entry k + 1 is month number k, 0 = 2024-01)
MonthStart ==
    << 0, 31, 60, 91, 121, 152, 182, 213, 244, 274, 305, 335,
       366, 397, 425, 456, 486, 517, 547, 578, 609, 639, 670, 700,
       731, 762, 790, 821, 851, 882, 912, 943, 974, 1004, 1035, 1065, 1096 >>

\* wall-clock fields of an instant read in UTC
Fields(t) ==
    LET n == t \div MinutesPerDay
        r == t % MinutesPerDay
        \* the month holding day n: a month has 28 to 31 days
        k == CHOOSE j \in (n \div 31)..(n \div 28) :
                 j <= 35 /\ MonthStart[j + 1] <= n /\ n < MonthStart[j + 2]
    IN  [year |-> 2024 + (k \div 12), month |-> (k % 12) + 1,
         day |-> n - MonthStart[k + 1] + 1, hour |-> r \div 60, minute |-> r % 60]

\* the instant whose UTC wall-clock fields are f
Instant(f) ==
    (MonthStart[(f.year - 2024) * 12 + f.month] + f.day - 1) * MinutesPerDay
    + f.hour * 60 + f.minute

\* dt.astimezone(TZ_SAO_PAULO): the fields of instant t on the civil clock
FieldsBrt(t) == Fields(t - BrtOffset)

\* naive.replace(tzinfo=TZ_SAO_PAULO): the instant of civil wall-clock f
InstantBrt(f) == Instant(f) + BrtOffset

\* a civil-local date and time, as an instant
Civil(y, m, d, h, mi) ==
    InstantBrt([year |-> y, month |-> m, day |-> d, hour |-> h, minute |-> mi])

\* what a failed datetime.replace raises
ValueError == -1

\* dt + relativedelta(months=1) on the UTC fields: the day is clamped to
\* the length of the target month
AddMonth(t) ==
    LET f == Fields(t)
        y == IF f.month = 12 THEN f.year + 1 ELSE f.year
        m == IF f.month = 12 THEN 1 ELSE f.month + 1
        d == IF f.day > DaysInMonth(y, m) THEN DaysInMonth(y, m) ELSE f.day
    IN  Instant([f EXCEPT !.year = y, !.month = m, !.day = d])

\* dt.replace(day=d, hour=h, minute=mi) on the UTC fields: ValueError when
\* the month of dt has no day d
ReplaceDayHourMinute(t, d, h, mi) ==
    LET f == Fields(t)
    IN  IF d > DaysInMonth(f.year, f.month) THEN ValueError
        ELSE Instant([f EXCEPT !.day = d, !.hour = h, !.minute = mi])

\* dt.replace(hour=0, minute=0, second=0, microsecond=0) in UTC
StartOfDay(t) == t - (t % MinutesPerDay)

\* now_brt.replace(hour=0, minute=0, second=0, microsecond=0)
StartOfTodayBrt(t) == StartOfDay(t - BrtOffset) + BrtOffset

-----------------------------------------------------------------------------
(* Inputs.                                                                 *)

Users == {1, 2}

Descriptions == {"aluguel"}

\* the local wall-clock due dates the classifier hands to create_reminder:
\* an afternoon on the 30th, a morning on the 31st, and a late evening a
\* month later (already the next day in UTC)
DueChoices ==
    { Civil(2024, 1, 30, 15, 0),
      Civil(2024, 1, 31, 8, 0),
      Civil(2024, 2, 29, 22, 0) }

\* the instants at which something happens
ClockPoints ==
    { Civil(2024, 1, 29, 12, 0),
      Civil(2024, 1, 30, 10, 0),
      Civil(2024, 1, 30, 19, 59),
      Civil(2024, 1, 30, 20, 1),
      Civil(2024, 1, 30, 20, 30),
      Civil(2024, 1, 31, 8, 0),
      Civil(2024, 3, 31, 8, 0),
      Civil(2024, 4, 10, 12, 0) }

FirstClockPoint == Civil(2024, 1, 29, 12, 0)

-----------------------------------------------------------------------------
(* The store and the sink.                                                 *)

None == "None"

\* Reminder(...): a new row with the column defaults
NewReminder(u, desc, due, rec) ==
    [user_id |-> u, description |-> desc, due_date |-> due,
     is_sent |-> "false", pre_reminder_sent |-> "false", recurrence |-> rec]

\* one call of send_whatsapp_message: the request either goes through or
\* fails, and a failure is logged and swallowed
Message(kind, rid, r, ok) ==
    [kind |-> kind, rid |-> rid, to |-> r.user_id,
     description |-> r.description, due_date |-> r.due_date, ok |-> ok]

\* the messages sent for the rows ids, delivered or not as ok says
Sent(kind, ids, ok) ==
    SetToBag({ Message(kind, i, reminders[i], ok[i]) : i \in ids })

Ids == DOMAIN reminders

\* the runs of the scan that may overlap: one per request being served
Invocations == {1, 2}

\* no scan is running
NoScans == [p \in Invocations |-> [at |-> "idle", due |-> {}]]

-----------------------------------------------------------------------------
(* generate_monthly_reminders.                                             *)

\* the rows the query on recurrence == 'monthly' returns
Templates(db) == { i \in DOMAIN db : db[i].recurrence = "monthly" }

\* the orders in which a query without ORDER BY may return the rows S
Orders(S) ==
    { o \in [1..Cardinality(S) -> S] :
        \A a, b \in 1..Cardinality(S) : a # b => o[a] # o[b] }

\* the next occurrence of a template due at due, computed at nowUtc
NextDueDate(due, nowUtc) ==
    LET plusOne == AddMonth(due)
        f == Fields(due)
        jump == ReplaceDayHourMinute(nowUtc, f.day, f.hour, f.minute)
    IN  IF plusOne < nowUtc
        THEN IF jump = ValueError THEN ValueError
             ELSE IF jump < nowUtc THEN AddMonth(jump) ELSE jump
        ELSE plusOne

\* the duplicate check: a committed punctual row of the same user and
\* description due within the day of next (the session does not autoflush,
\* so rows added earlier in the same run are not seen)
InstanceExists(db, tpl, next) ==
    \E j \in DOMAIN db :
        /\ db[j].user_id = tpl.user_id
        /\ db[j].description = tpl.description
        /\ db[j].due_date >= StartOfDay(next)
        /\ db[j].due_date < StartOfDay(next) + MinutesPerDay
        /\ db[j].recurrence = None

\* what the loop body does for template i
Outcome(db, i, nowUtc) ==
    LET next == NextDueDate(db[i].due_date, nowUtc)
    IN  IF next = ValueError THEN [kind |-> "error", due |-> ValueError]
        ELSE IF InstanceExists(db, db[i], next) THEN [kind |-> "skip", due |-> next]
        ELSE [kind |-> "create", due |-> next]

\* a session holding no uncommitted change
CleanSession == [new |-> <<>>, upd |-> {}]

\* db.rollback(): every uncommitted change of the session is discarded
Rollback(session) == CleanSession

RECURSIVE RunTemplates(_, _, _, _)
\* the for loop over the templates, in the order given: the uncommitted
\* changes the session holds when the loop ends
RunTemplates(db, order, nowUtc, session) ==
    IF order = <<>> THEN session
    ELSE LET i == Head(order)
             o == Outcome(db, i, nowUtc)
             after ==
                 IF o.kind = "error" THEN Rollback(session)
                 ELSE IF o.kind = "skip" THEN session
                 ELSE [new |-> Append(session.new,
                                  NewReminder(db[i].user_id, db[i].description,
                                              o.due, None)),
                       upd |-> session.upd \cup {<<i, o.due>>}]
         IN  RunTemplates(db, Tail(order), nowUtc, after)

\* a commit that loses the rows added to the session
CommitWithoutNewRows(db, session) ==
    [i \in DOMAIN db |->
        IF \E u \in session.upd : u[1] = i
        THEN [db[i] EXCEPT !.due_date = (CHOOSE u \in session.upd : u[1] = i)[2]]
        ELSE db[i]]

\* db.commit(): the session's changes reach the table
Commit(db, session) ==
    [i \in DOMAIN db |->
        IF \E u \in session.upd : u[1] = i
        THEN [db[i] EXCEPT !.due_date = (CHOOSE u \in session.upd : u[1] = i)[2]]
        ELSE db[i]] \o session.new

\* no expansion has run in the current tick
NoLog == [ran |-> FALSE, base |-> 0, order |-> <<>>, out |-> <<>>]

\* GET /trigger/check-reminders/{secret_key} with the right key: the two
\* background tasks are queued and run one after the other
TriggerReminders ==
    /\ pc = "idle"
    /\ Len(reminders) + Cardinality(Templates(reminders)) <= MaxReminders
    /\ pc' = "generate"
    /\ UNCHANGED <<now, reminders, outbox, genLog, quiet, query, answer, ledger,
                   aside>>

GenerateMonthlyReminders ==
    /\ pc = "generate"
    /\ \E order \in Orders(Templates(reminders)) :
          /\ reminders' = Commit(reminders,
                                 RunTemplates(reminders, order, now, CleanSession))
          /\ genLog' = [ran |-> TRUE, base |-> Len(reminders), order |-> order,
                        out |-> [k \in DOMAIN order |->
                                    Outcome(reminders, order[k], now)]]
    /\ pc' = "check"
    /\ UNCHANGED <<now, outbox, quiet, query, answer, ledger, aside>>

-----------------------------------------------------------------------------
(* check_and_send_reminders (main.py).                                     *)

\* the rows the proactive query returns
ProactiveCandidates(db, nowUtc) ==
    { i \in DOMAIN db : /\ db[i].is_sent = "false"
                        /\ db[i].pre_reminder_sent = "false"
                        /\ db[i].due_date > nowUtc }

\* the window computed on the stored UTC fields, astimezone forgotten
NotificationWindowStartUtc(due) ==
    LET f == Fields(due)
    IN  IF f.hour < 12
        THEN Instant([f EXCEPT !.hour = 20, !.minute = 0]) - MinutesPerDay
        ELSE Instant([f EXCEPT !.hour = 9, !.minute = 0])

\* notification_window_start of a reminder due at due
NotificationWindowStart(due) ==
    LET f == FieldsBrt(due)
    IN  IF f.hour < 12
        THEN InstantBrt([f EXCEPT !.hour = 20, !.minute = 0]) - MinutesPerDay
        ELSE InstantBrt([f EXCEPT !.hour = 9, !.minute = 0])

\* the candidates whose window has opened: they get the pre-notice
PreNoticed(db, nowUtc) ==
    { i \in ProactiveCandidates(db, nowUtc) :
        nowUtc >= NotificationWindowStart(db[i].due_date) }

\* the rows the exact-time query returns
DueReminders(db, nowUtc) ==
    { i \in DOMAIN db : db[i].due_date <= nowUtc /\ db[i].is_sent = "false" }

\* a scan that forgets to flag the row
MarkPreForgotten(r) == r

\* the row after its pre-notice was handed to send_whatsapp_message
MarkPre(r) == [r EXCEPT !.pre_reminder_sent = "true"]

\* a scan that forgets to flag the row
MarkSentForgotten(r) == r

\* the row after its exact-time notice was handed to send_whatsapp_message
MarkSent(r) == [r EXCEPT !.is_sent = "true"]

CheckAndSendReminders ==
    /\ pc = "check"
    /\ LET pre == PreNoticed(reminders, now)
           due == DueReminders(reminders, now)
       IN  \E ok \in [pre \cup due -> BOOLEAN] :
              /\ reminders' = [i \in Ids |->
                                  IF i \in pre THEN MarkPre(reminders[i])
                                  ELSE IF i \in due THEN MarkSent(reminders[i])
                                  ELSE reminders[i]]
              /\ outbox' = outbox (+) Sent("pre", pre, ok) (+) Sent("exact", due, ok)
    /\ pc' = "idle"
    /\ genLog' = NoLog
    /\ quiet' = TRUE
    /\ UNCHANGED <<now, query, answer, ledger, aside>>

-----------------------------------------------------------------------------
(* check_and_send_reminders when requests overlap: every request to        *)
(* trigger_reminders queues its own run on its own session, and the runs   *)
(* of the worker threads interleave between the query and the commits.     *)

\* a loop body that looks at the flag again before it sends
ExactNoticeIfUnsent(i, r, ok) ==
    IF r.is_sent = "false" THEN SetToBag({ Message("exact", i, r, ok) })
    ELSE EmptyBag

\* the body of the exact-time loop for row i: the message is handed to
\* send_whatsapp_message, whatever the row's flag is by now
ExactNotice(i, r, ok) == SetToBag({ Message("exact", i, r, ok) })

\* run p begins: the proactive part, then the exact-time query loads its rows
ScanStart(p) ==
    /\ pc = "idle"
    /\ scans[p].at = "idle"
    /\ LET pre == PreNoticed(reminders, now)
           due == DueReminders(reminders, now)
       IN  \E ok \in [pre -> BOOLEAN] :
              /\ reminders' = [i \in Ids |->
                                  IF i \in pre THEN MarkPre(reminders[i])
                                  ELSE reminders[i]]
              /\ outbox' = outbox (+) Sent("pre", pre, ok)
              /\ scans' = [scans EXCEPT ![p] =
                              IF due = {} THEN [at |-> "idle", due |-> {}]
                              ELSE [at |-> "loop", due |-> due]]
    /\ quiet' = FALSE
    /\ UNCHANGED <<now, pc, genLog, query, answer, ledger, categories, deleted>>

\* run p handles one of the rows it loaded: send, flag, commit
ScanSend(p) ==
    /\ scans[p].at = "loop"
    /\ \E i \in scans[p].due, ok \in BOOLEAN :
          /\ outbox' = outbox (+) ExactNotice(i, reminders[i], ok)
          /\ reminders' = [reminders EXCEPT ![i] = MarkSent(@)]
          /\ scans' = [scans EXCEPT ![p] =
                          IF scans[p].due = {i} THEN [at |-> "idle", due |-> {}]
                          ELSE [at |-> "loop", due |-> scans[p].due \ {i}]]
    /\ quiet' = FALSE
    /\ UNCHANGED <<now, pc, genLog, query, answer, ledger, categories, deleted>>

-----------------------------------------------------------------------------
(* check_and_send_reminders of the cron script (send_reminders.py).        *)

\* pending_reminders: the rows due by datetime.utcnow(), a value without
\* tzinfo that the column reads in the zone of the database session
PendingReminders(db, nowUtc, offset) ==
    { i \in DOMAIN db : db[i].due_date <= nowUtc + offset
                        /\ db[i].is_sent = "false" }

\* what may happen to one pending row: the message is delivered, the sink
\* fails (logged and swallowed by send_whatsapp_message), the body raises,
\* or the row's user is not found
CronOutcomes == {"delivered", "failed", "raised", "no_user"}

\* the messages of a run of the cron script
CronSent(ids, outcome) ==
    SetToBag({ Message("cron", i, reminders[i], outcome[i] = "delivered") :
                 i \in { j \in ids : outcome[j] \in {"delivered", "failed"} } })

\* an except branch that leaves the row pending
MarkSentOnErrorSkipped(r) == r

\* the except branch: the row is flagged all the same
MarkSentOnError(r) == [r EXCEPT !.is_sent = "true"]

\* the branch of the missing user: the row is flagged
MarkSentNoUser(r) == [r EXCEPT !.is_sent = "true"]

\* one run of the script, from the query to db.close()
CronCheckAndSendReminders(offset) ==
    /\ pc = "idle"
    /\ LET pending == PendingReminders(reminders, now, offset)
       IN  \E outcome \in [pending -> CronOutcomes] :
              /\ reminders' =
                    [i \in Ids |->
                        IF i \notin pending THEN reminders[i]
                        ELSE IF outcome[i] = "raised"
                        THEN MarkSentOnError(reminders[i])
                        ELSE IF outcome[i] = "no_user"
                        THEN MarkSentNoUser(reminders[i])
                        ELSE MarkSent(reminders[i])]
              /\ outbox' = outbox (+) CronSent(pending, outcome)
              /\ answer' = [action |-> "send_reminders", kind |-> "run",
                            at |-> now, pending |-> pending]
    /\ quiet' = FALSE
    /\ UNCHANGED <<now, pc, genLog, query, ledger, aside>>

-----------------------------------------------------------------------------
(* The period resolver of the summaries: get_expenses_summary and          *)
(* get_incomes_summary.  A text is a sequence of characters.               *)

UpperCase ==
    << "A", "B", "C", "D", "E", "F", "G", "H", "I", "J", "K", "L", "M", "N",
       "O", "P", "Q", "R", "S", "T", "U", "V", "W", "X", "Y", "Z", "Ê", "Ú",
       "Ã", "Í" >>

LowerCase ==
    << "a", "b", "c", "d", "e", "f", "g", "h", "i", "j", "k", "l", "m", "n",
       "o", "p", "q", "r", "s", "t", "u", "v", "w", "x", "y", "z", "ê", "ú",
       "ã", "í" >>

\* str.lower()
Lower(text) ==
    [k \in DOMAIN text |->
        IF \E u \in DOMAIN UpperCase : UpperCase[u] = text[k]
        THEN LowerCase[CHOOSE u \in DOMAIN UpperCase : UpperCase[u] = text[k]]
        ELSE text[k]]

\* text starts with token at position k
StartsAt(text, k, token) ==
    /\ k + Len(token) - 1 <= Len(text)
    /\ SubSeq(text, k, k + Len(token) - 1) = token

\* token in text
Contains(text, token) == \E k \in 1..Len(text) : StartsAt(text, k, token)

Digits == << "0", "1", "2", "3", "4", "5", "6", "7", "8", "9" >>

\* \d
IsDigit(c) == \E k \in DOMAIN Digits : Digits[k] = c

RECURSIVE ParseInt(_)
\* int(s) of a run of digits
ParseInt(s) ==
    IF s = <<>> THEN 0
    ELSE 10 * ParseInt(SubSeq(s, 1, Len(s) - 1))
         + (CHOOSE k \in DOMAIN Digits : Digits[k] = s[Len(s)]) - 1

TokenMonth == << "m", "ê", "s" >>

TokenToday == << "h", "o", "j", "e" >>

TokenYesterday == << "o", "n", "t", "e", "m" >>

TokenWeek == << "s", "e", "m", "a", "n", "a" >>

TokenSevenDays == << "7", " ", "d", "i", "a", "s" >>

PatternHead == << "ú", "l", "t", "i", "m", "o", "s", " " >>

PatternTail == << " ", "d", "i", "a", "s" >>

\* the last position of the longest run of digits that starts at k
\* (k - 1 when there is none): what the greedy \d+ takes
DigitRunEnd(text, k) ==
    CHOOSE e \in (k - 1)..Len(text) :
        /\ \A j \in k..e : IsDigit(text[j])
        /\ e = Len(text) \/ ~IsDigit(text[e + 1])

\* the pattern 'últimos (\d+) dias' matches at position k
MatchesAt(text, k) ==
    /\ StartsAt(text, k, PatternHead)
    /\ LET b == k + Len(PatternHead)
           e == DigitRunEnd(text, b)
       IN  e >= b /\ StartsAt(text, e + 1, PatternTail)

\* the result of no match and of a match
NoMatch == [matched |-> FALSE]

\* re.search(r'últimos (\d+) dias', text): the leftmost match and its group 1
DynamicDaysMatch(text) ==
    IF \E k \in 1..Len(text) : MatchesAt(text, k)
    THEN LET k == CHOOSE i \in 1..Len(text) :
                      /\ MatchesAt(text, i)
                      /\ \A j \in 1..(i - 1) : ~MatchesAt(text, j)
             b == k + Len(PatternHead)
         IN  [matched |-> TRUE, group1 |-> SubSeq(text, b, DigitRunEnd(text, b))]
    ELSE NoMatch

\* start_brt and end_brt both set
Interval(start, end) == [resolved |-> TRUE, start |-> start, end |-> end]

\* a resolver that falls back to a fixed day when no rule matches
UnresolvedFallsBack == Interval(0, MinutesPerDay)

\* start_brt and end_brt both None
Unresolved == [resolved |-> FALSE]

\* start_of_today_brt.replace(day=1)
FirstOfMonthBrt(t) == InstantBrt([FieldsBrt(t) EXCEPT !.day = 1])

\* a resolver that looks for 'hoje' before it looks for the month
GetExpensesSummaryTodayFirst(period, nowUtc) ==
    LET start_of_today_brt == StartOfTodayBrt(nowUtc)
        period_lower == Lower(period)
        dynamic_days_match == DynamicDaysMatch(period_lower)
    IN  IF Contains(period_lower, TokenToday)
        THEN Interval(start_of_today_brt, start_of_today_brt + MinutesPerDay)
        ELSE IF Contains(period_lower, TokenMonth)
        THEN Interval(FirstOfMonthBrt(start_of_today_brt),
                      start_of_today_brt + MinutesPerDay)
        ELSE IF Contains(period_lower, TokenYesterday)
        THEN Interval(start_of_today_brt - MinutesPerDay, start_of_today_brt)
        ELSE IF \/ Contains(period_lower, TokenWeek)
                \/ Contains(period_lower, TokenSevenDays)
        THEN Interval(start_of_today_brt - 6 * MinutesPerDay,
                      start_of_today_brt + MinutesPerDay)
        ELSE IF dynamic_days_match.matched
        THEN LET days == ParseInt(dynamic_days_match.group1)
             IN  Interval(start_of_today_brt - (days - 1) * MinutesPerDay,
                          start_of_today_brt + MinutesPerDay)
        ELSE Unresolved

\* get_expenses_summary: the interval its query filters on
GetExpensesSummary(period, nowUtc) ==
    LET start_of_today_brt == StartOfTodayBrt(nowUtc)
        period_lower == Lower(period)
        dynamic_days_match == DynamicDaysMatch(period_lower)
    IN  IF Contains(period_lower, TokenMonth)
        THEN Interval(FirstOfMonthBrt(start_of_today_brt),
                      start_of_today_brt + MinutesPerDay)
        ELSE IF Contains(period_lower, TokenToday)
        THEN Interval(start_of_today_brt, start_of_today_brt + MinutesPerDay)
        ELSE IF Contains(period_lower, TokenYesterday)
        THEN Interval(start_of_today_brt - MinutesPerDay, start_of_today_brt)
        ELSE IF \/ Contains(period_lower, TokenWeek)
                \/ Contains(period_lower, TokenSevenDays)
        THEN Interval(start_of_today_brt - 6 * MinutesPerDay,
                      start_of_today_brt + MinutesPerDay)
        ELSE IF dynamic_days_match.matched
        THEN LET days == ParseInt(dynamic_days_match.group1)
             IN  Interval(start_of_today_brt - (days - 1) * MinutesPerDay,
                          start_of_today_brt + MinutesPerDay)
        ELSE Unresolved

\* get_incomes_summary: the interval its query filters on
GetIncomesSummary(period, nowUtc) ==
    LET start_of_today_brt == StartOfTodayBrt(nowUtc)
        period_lower == Lower(period)
        dynamic_days_match == DynamicDaysMatch(period_lower)
    IN  IF Contains(period_lower, TokenMonth)
        THEN Interval(FirstOfMonthBrt(start_of_today_brt),
                      start_of_today_brt + MinutesPerDay)
        ELSE IF Contains(period_lower, TokenToday)
        THEN Interval(start_of_today_brt, start_of_today_brt + MinutesPerDay)
        ELSE IF Contains(period_lower, TokenYesterday)
        THEN Interval(start_of_today_brt - MinutesPerDay, start_of_today_brt)
        ELSE IF \/ Contains(period_lower, TokenWeek)
                \/ Contains(period_lower, TokenSevenDays)
        THEN Interval(start_of_today_brt - 6 * MinutesPerDay,
                      start_of_today_brt + MinutesPerDay)
        ELSE IF dynamic_days_match.matched
        THEN LET days == ParseInt(dynamic_days_match.group1)
             IN  Interval(start_of_today_brt - (days - 1) * MinutesPerDay,
                          start_of_today_brt + MinutesPerDay)
        ELSE Unresolved

\* get_reminders_for_period: the period resolver of the reminder listing.

TokenTomorrow == << "a", "m", "a", "n", "h", "ã" >>

\* the pattern '\d{2}/\d{2}/\d{4}' matches at position k
DateMatchesAt(text, k) ==
    /\ k + 9 <= Len(text)
    /\ \A j \in {0, 1, 3, 4, 6, 7, 8, 9} : IsDigit(text[k + j])
    /\ text[k + 2] = "/" /\ text[k + 5] = "/"

\* re.search(r'(\d{2}/\d{2}/\d{4})', text): the leftmost match and its group 1
DateMatch(text) ==
    IF \E k \in 1..Len(text) : DateMatchesAt(text, k)
    THEN LET k == CHOOSE i \in 1..Len(text) :
                      /\ DateMatchesAt(text, i)
                      /\ \A j \in 1..(i - 1) : ~DateMatchesAt(text, j)
         IN  [matched |-> TRUE, group1 |-> SubSeq(text, k, k + 9)]
    ELSE NoMatch

\* datetime.strptime(s, '%d/%m/%Y') with hour, minute, second zeroed and
\* tzinfo=TZ_SAO_PAULO: the instant of that civil midnight, ValueError when
\* s names no day of the calendar
StrpTimeBrt(s) ==
    LET d == ParseInt(SubSeq(s, 1, 2))
        m == ParseInt(SubSeq(s, 4, 5))
        y == ParseInt(SubSeq(s, 7, 10))
    IN  IF y < 1 \/ m < 1 \/ m > 12 THEN ValueError
        ELSE IF d < 1 \/ d > DaysInMonth(y, m) THEN ValueError
        ELSE Civil(y, m, d, 0, 0)

\* get_reminders_for_period: the interval its query filters on
GetRemindersForPeriod(period, nowUtc) ==
    LET start_of_today_brt == StartOfTodayBrt(nowUtc)
        period_lower == Lower(period)
        date_match == DateMatch(period_lower)
    IN  IF Contains(period_lower, TokenToday)
        THEN Interval(start_of_today_brt, start_of_today_brt + MinutesPerDay)
        ELSE IF Contains(period_lower, TokenTomorrow)
        THEN Interval(start_of_today_brt + MinutesPerDay,
                      start_of_today_brt + 2 * MinutesPerDay)
        ELSE IF date_match.matched
        THEN LET start_brt == StrpTimeBrt(date_match.group1)
             IN  IF start_brt = ValueError THEN Unresolved
                 ELSE Interval(start_brt, start_brt + MinutesPerDay)
        ELSE Unresolved

-----------------------------------------------------------------------------
(* The ledger queries of the summaries and the dashboard login token.      *)
(* A missing or empty text (None or '') is the empty sequence; money is in *)
(* cents.                                                                   *)

\* Expense(...): a new row, transaction_date defaulting to now
NewExpense(u, desc, value, category, nowUtc) ==
    [user_id |-> u, description |-> desc, value |-> value,
     category |-> category, transaction_date |-> nowUtc]

\* Income(...): a new row, transaction_date defaulting to now
NewIncome(u, desc, value, nowUtc) ==
    [user_id |-> u, description |-> desc, value |-> value,
     transaction_date |-> nowUtc]

\* a query that takes the end of the interval in
ExpensesQueryEndIncluded(db, u, interval, category) ==
    { i \in DOMAIN db :
        /\ db[i].user_id = u
        /\ db[i].transaction_date >= interval.start
        /\ db[i].transaction_date <= interval.end
        /\ category # <<>> =>
              (db[i].category # <<>> /\ Lower(db[i].category) = Lower(category)) }

\* the rows the query of get_expenses_summary selects
ExpensesQuery(db, u, interval, category) ==
    { i \in DOMAIN db :
        /\ db[i].user_id = u
        /\ db[i].transaction_date >= interval.start
        /\ db[i].transaction_date < interval.end
        /\ category # <<>> =>
              (db[i].category # <<>> /\ Lower(db[i].category) = Lower(category)) }

\* the rows the query of get_incomes_summary selects
IncomesQuery(db, u, interval) ==
    { i \in DOMAIN db :
        /\ db[i].user_id = u
        /\ db[i].transaction_date >= interval.start
        /\ db[i].transaction_date < interval.end }

\* order_by(transaction_date.asc()): the orders in which the rows S may come
\* back, rows of equal date in any order
OrderedByDate(db, S) ==
    { o \in Orders(S) :
        \A a, b \in DOMAIN o :
            a < b => db[o[a]].transaction_date <= db[o[b]].transaction_date }

RECURSIVE SumValues(_, _)
\* sum(row.value for row in rows)
SumValues(db, rows) ==
    IF rows = <<>> THEN 0
    ELSE db[Head(rows)].value + SumValues(db, Tail(rows))

ExpiryMinutes == 5

\* create_auth_token: a new row; the token string is the row's index
CreateAuthToken(db, u, nowUtc) ==
    Append(db, [user_id |-> u, expires_at |-> nowUtc + ExpiryMinutes,
                live |-> TRUE])

\* a delete that never reaches the table
DeleteForgotten(db, k) == db

\* db.delete(token_obj)
Delete(db, k) == [db EXCEPT ![k].live = FALSE]

\* no summary was asked for yet
NoAnswer == [action |-> "none", kind |-> "none"]

\* handle_dify_action, action "get_summary": the clarification when the
\* expenses resolver returns no interval; otherwise the two queries, their
\* totals and, when the dashboard is configured, a login token.  The answer
\* records the messages handed to send_whatsapp_message and the tables read.
GetSummary(u, period, category) ==
    /\ pc = "idle"
    /\ query' = period
    /\ LET expense_data == GetExpensesSummary(period, now)
       IN  IF ~expense_data.resolved
           THEN /\ answer' = [action |-> "get_summary", kind |-> "clarify",
                              at |-> now, user |-> u, sent |-> <<"clarify">>,
                              queried |-> {}]
                /\ tokens' = tokens
           ELSE /\ dashboard => Len(tokens) < MaxTokens
                /\ LET income_data == GetIncomesSummary(period, now)
                   IN  \E rows \in OrderedByDate(expenses,
                                     ExpensesQuery(expenses, u, expense_data,
                                                   category)),
                          credits \in OrderedByDate(incomes,
                                     IncomesQuery(incomes, u, income_data)) :
                          answer' = [action |-> "get_summary",
                                     kind |-> "summary",
                                     at |-> now, user |-> u,
                                     category |-> category,
                                     sent |-> <<"summary">>,
                                     queried |-> {"expenses", "incomes"},
                                     expenses |-> expense_data,
                                     incomes |-> income_data,
                                     rows |-> rows,
                                     total |-> SumValues(expenses, rows),
                                     credits |-> credits,
                                     total_incomes |-> SumValues(incomes, credits)]
                /\ tokens' = IF dashboard THEN CreateAuthToken(tokens, u, now)
                             ELSE tokens
    /\ quiet' = FALSE
    /\ UNCHANGED <<now, reminders, outbox, pc, genLog, expenses, incomes,
                   planned, dashboard, aside>>

\* the rows the query of get_reminders_for_period selects
RemindersQuery(db, u, interval) ==
    { i \in DOMAIN db :
        /\ db[i].user_id = u
        /\ db[i].due_date >= interval.start
        /\ db[i].due_date < interval.end }

\* order_by(due_date.asc())
OrderedByDueDate(db, S) ==
    { o \in Orders(S) :
        \A a, b \in DOMAIN o : a < b => db[o[a]].due_date <= db[o[b]].due_date }

\* handle_dify_action, action "get_reminders": the clarification when the
\* resolver returns no interval, the listing of the interval otherwise
GetReminders(u, period) ==
    /\ pc = "idle"
    /\ query' = period
    /\ LET found == GetRemindersForPeriod(period, now)
       IN  IF ~found.resolved
           THEN answer' = [action |-> "get_reminders", kind |-> "clarify",
                           at |-> now, user |-> u, sent |-> <<"clarify">>,
                           queried |-> {}]
           ELSE \E rows \in OrderedByDueDate(reminders,
                               RemindersQuery(reminders, u, found)) :
                   answer' = [action |-> "get_reminders", kind |-> "reminders",
                              at |-> now, user |-> u, sent |-> <<"listing">>,
                              queried |-> {"reminders"},
                              interval |-> found, rows |-> rows]
    /\ quiet' = FALSE
    /\ UNCHANGED <<now, reminders, outbox, pc, genLog, ledger, aside>>

\* handle_dify_action, action "get_dashboard_link"
GetDashboardLink(u) ==
    /\ pc = "idle"
    /\ IF ~dashboard
       THEN /\ answer' = [action |-> "get_dashboard_link",
                          kind |-> "not configured", at |-> now, user |-> u,
                          sent |-> <<"not configured">>, queried |-> {}]
            /\ tokens' = tokens
       ELSE /\ Len(tokens) < MaxTokens
            /\ tokens' = CreateAuthToken(tokens, u, now)
            /\ answer' = [action |-> "get_dashboard_link", kind |-> "link",
                          at |-> now, user |-> u, sent |-> <<"link">>,
                          queried |-> {}]
    /\ quiet' = FALSE
    /\ UNCHANGED <<now, reminders, outbox, pc, genLog, query, expenses,
                   incomes, planned, dashboard, aside>>

\* GET /api/verify-token/{token}: the phone number of the token's user when
\* the token is found and not expired, 404 otherwise; a token that is found
\* is deleted either way
VerifyToken(k) ==
    /\ pc = "idle"
    /\ LET found == k \in DOMAIN tokens /\ tokens[k].live
       IN  IF found /\ tokens[k].expires_at > now
           THEN /\ tokens' = Delete(tokens, k)
                /\ answer' = [action |-> "verify_token", kind |-> "200",
                              at |-> now, token |-> k,
                              phone_number |-> tokens[k].user_id]
           ELSE /\ tokens' = IF found THEN Delete(tokens, k) ELSE tokens
                /\ answer' = [action |-> "verify_token", kind |-> "404",
                              at |-> now, token |-> k]
    /\ quiet' = FALSE
    /\ UNCHANGED <<now, reminders, outbox, pc, genLog, query, expenses,
                   incomes, planned, dashboard, aside>>

\* PlannedExpense(...): a new row, statuses '{}'
NewPlannedExpense(u, name, due_day) ==
    [user_id |-> u, name |-> name, due_day |-> due_day, statuses |-> <<>>]

\* datetime.now(TZ_SAO_PAULO).strftime('%Y-%m')
MonthKey(nowUtc) ==
    LET f == FieldsBrt(nowUtc) IN [year |-> f.year, month |-> f.month]

\* statuses[month_key] = "Pago": statuses is the sequence of the pairs of
\* the JSON object, a key at most once
MarkPaid(statuses, key) ==
    IF \E k \in DOMAIN statuses : statuses[k].key = key
    THEN [k \in DOMAIN statuses |->
             IF statuses[k].key = key
             THEN [key |-> key, status |-> "Pago"] ELSE statuses[k]]
    ELSE Append(statuses, [key |-> key, status |-> "Pago"])

\* the planned expense the loop stops at: the first of order whose
\* lower-cased name is in the lower-cased description, 0 when there is none
FirstMatch(db, order, description) ==
    LET hits == { a \in DOMAIN order :
                     Contains(Lower(description), Lower(db[order[a]].name)) }
    IN  IF hits = {} THEN 0
        ELSE order[CHOOSE a \in hits : \A b \in hits : a <= b]

\* the automatic payment of register_expense
AutoPay(db, order, description, nowUtc) ==
    LET i == FirstMatch(db, order, description)
    IN  IF i = 0 THEN db
        ELSE [db EXCEPT ![i].statuses = MarkPaid(@, MonthKey(nowUtc))]

\* the users that own a row
LedgerUsers ==
    { expenses[i].user_id : i \in DOMAIN expenses }
    \cup { incomes[i].user_id : i \in DOMAIN incomes }
    \cup { planned[i].user_id : i \in DOMAIN planned }

\* handle_dify_action, action "register_expense": the expense is stored, the
\* confirmation sent, and the first planned expense of the user that the
\* description names is marked paid for the current month
RegisterExpense(u, input) ==
    /\ pc = "idle"
    /\ Len(expenses) + Len(incomes) < MaxEntries
    /\ u \in LedgerUsers \cup {Cardinality(LedgerUsers) + 1}
    /\ expenses' = Append(expenses,
                          NewExpense(u, input.description, input.value,
                                     input.category, now))
    /\ \E order \in Orders({ i \in DOMAIN planned :
                                 /\ planned[i].user_id = u
                                 /\ <<"planned_expenses", i>> \notin deleted }) :
          planned' = AutoPay(planned, order, input.description, now)
    /\ answer' = [action |-> "register_expense", kind |-> "confirmation",
                  sent |-> <<"confirmation">>, queried |-> {"planned_expenses"}]
    /\ quiet' = FALSE
    /\ UNCHANGED <<now, reminders, outbox, pc, genLog, query, incomes, tokens,
                   dashboard, aside>>

\* handle_dify_action, action "register_income"
RegisterIncome(u, input) ==
    /\ pc = "idle"
    /\ Len(expenses) + Len(incomes) < MaxEntries
    /\ u \in LedgerUsers \cup {Cardinality(LedgerUsers) + 1}
    /\ incomes' = Append(incomes,
                         NewIncome(u, input.description, input.value, now))
    /\ answer' = [action |-> "register_income", kind |-> "confirmation",
                  sent |-> <<"confirmation">>, queried |-> {}]
    /\ quiet' = FALSE
    /\ UNCHANGED <<now, reminders, outbox, pc, genLog, query, expenses,
                   planned, tokens, dashboard, aside>>

\* handle_dify_action, action "add_planned_expense", with a name and a day
AddPlannedExpense(u, name, due_day) ==
    /\ pc = "idle"
    /\ Len(planned) < MaxPlanned
    /\ u \in LedgerUsers \cup {Cardinality(LedgerUsers) + 1}
    /\ planned' = Append(planned, NewPlannedExpense(u, name, due_day))
    /\ answer' = [action |-> "add_planned_expense", kind |-> "confirmation",
                  sent |-> <<"confirmation">>, queried |-> {}]
    /\ quiet' = FALSE
    /\ UNCHANGED <<now, reminders, outbox, pc, genLog, query, expenses,
                   incomes, tokens, dashboard, aside>>

\* the kinds of inbound message the webhook hands to the classifier
MessageKinds == {"conversation", "audioMessage", "imageMessage"}

\* POST /webhook/evolution when the classifier gives no result: the call to
\* Dify fails (call_dify_api returns None), the media has no URL, the
\* transcription fails, or the download of an audio raises (no except branch:
\* the request ends in an error).  The webhook logs and returns; nothing
\* reaches handle_dify_action.
EvolutionWebhookNoResult(u, message, raised) ==
    /\ pc = "idle"
    /\ raised => message = "audioMessage"
    /\ answer' = [action |-> "evolution_webhook",
                  kind |-> IF raised THEN "error" ELSE "falha_dify",
                  user |-> u, message |-> message,
                  sent |-> <<>>, queried |-> {}]
    /\ quiet' = FALSE
    /\ UNCHANGED <<now, reminders, outbox, pc, genLog, query, ledger, aside>>

-----------------------------------------------------------------------------
(* The chat action create_reminder and the passing of time.                *)

\* get_or_create_user: users are created on first contact and numbered in
\* the order of their creation; the users seen so far own the rows
KnownUsers == { reminders[i].user_id : i \in Ids }

\* handle_dify_action, action "create_reminder", with a due date that parses
\* (the confirmation text goes to the chat, it is no reminder notice)
CreateReminder(u, desc, due, rec) ==
    /\ pc = "idle"
    /\ Len(reminders) < MaxCreated
    /\ u \in KnownUsers \cup {Cardinality(KnownUsers) + 1}
    /\ reminders' = Append(reminders, NewReminder(u, desc, due, rec))
    /\ quiet' = FALSE
    /\ UNCHANGED <<now, outbox, pc, genLog, query, answer, ledger, aside>>

\* datetime.fromisoformat on a date and time without offset parses when the
\* fields name a date, and raises ValueError otherwise
FromIsoFormatParses(w) ==
    w.month \in 1..12 /\ w.day \in 1..DaysInMonth(w.year, w.month)

\* the zone of the database session, in minutes behind UTC: a date and time
\* bound without tzinfo to a column with time zone is read in that zone
\* (UTC, or the civil zone when the server is set to it)
SessionOffsets == {0, BrtOffset}

\* the users that exist: users are created on first contact in the chat,
\* and every chat action modelled here leaves a row or a token of theirs
ExistingUsers ==
    LedgerUsers \cup KnownUsers
    \cup { categories[i].user_id : i \in DOMAIN categories }
    \cup { tokens[i].user_id : i \in DOMAIN tokens }

\* get_user_from_query: the user of the phone number, or 404
GetUserFromQuery(u) == u \in ExistingUsers

\* a lookup by id alone
FoundAnyOwner(db, table, k, u) ==
    /\ GetUserFromQuery(u)
    /\ k \in DOMAIN db
    /\ <<table, k>> \notin deleted

\* filter(X.id == k, X.user_id == user.id).first() finds a row
Found(db, table, k, u) ==
    /\ GetUserFromQuery(u)
    /\ k \in DOMAIN db
    /\ <<table, k>> \notin deleted
    /\ db[k].user_id = u

\* an update that makes the moved reminder pending again
UpdatedAndReset(r, desc, due) ==
    [r EXCEPT !.description = desc, !.due_date = due,
              !.is_sent = "false", !.pre_reminder_sent = "false"]

\* the row after the update: description and due_date are assigned
Updated(r, desc, due) == [r EXCEPT !.description = desc, !.due_date = due]

\* PUT /api/reminder/{id}: the row must exist and belong to the caller; the
\* date is parsed and stored as parsed, without tzinfo; the flags stay
UpdateReminderApi(k, u, desc, wall, offset) ==
    /\ pc = "idle"
    /\ quiet' = FALSE
    /\ IF ~Found(reminders, "reminders", k, u)
       THEN /\ answer' = [action |-> "update_reminder_api", kind |-> "404",
                          id |-> k, user |-> u]
            /\ UNCHANGED reminders
       ELSE IF ~FromIsoFormatParses(wall)
       THEN /\ answer' = [action |-> "update_reminder_api", kind |-> "400",
                          id |-> k, user |-> u]
            /\ UNCHANGED reminders
       ELSE /\ reminders' = [reminders EXCEPT
                               ![k] = Updated(@, desc, Instant(wall) + offset)]
            /\ answer' = [action |-> "update_reminder_api", kind |-> "200",
                          id |-> k, user |-> u, supplied |-> wall,
                          due_date |-> Instant(wall) + offset, at |-> now]
    /\ UNCHANGED <<now, outbox, pc, genLog, query, ledger, aside>>

-----------------------------------------------------------------------------
(* The other update and delete routes of the dashboard API.                *)

\* what a route answers: the status, and the id and caller it was asked with
ApiAnswer(action, kind, k, u) ==
    [action |-> action, kind |-> kind, id |-> k, user |-> u]

\* PUT /api/expense/{id}
UpdateExpense(a, k, data) ==
    /\ pc = "idle"
    /\ quiet' = FALSE
    /\ IF ~Found(expenses, "expenses", k, a)
       THEN /\ answer' = ApiAnswer("update_expense", "404", k, a)
            /\ UNCHANGED expenses
       ELSE /\ expenses' = [expenses EXCEPT ![k].description = data.description,
                                            ![k].value = data.value,
                                            ![k].category = data.category]
            /\ answer' = ApiAnswer("update_expense", "200", k, a)
    /\ UNCHANGED <<now, reminders, outbox, pc, genLog, query, incomes, planned,
                   tokens, dashboard, aside>>

\* DELETE /api/expense/{id}
DeleteExpense(a, k) ==
    /\ pc = "idle"
    /\ quiet' = FALSE
    /\ IF ~Found(expenses, "expenses", k, a)
       THEN /\ answer' = ApiAnswer("delete_expense", "404", k, a)
            /\ UNCHANGED deleted
       ELSE /\ deleted' = deleted \cup {<<"expenses", k>>}
            /\ answer' = ApiAnswer("delete_expense", "200", k, a)
    /\ UNCHANGED <<now, reminders, outbox, pc, genLog, query, ledger, scans,
                   categories>>

\* PUT /api/income/{id}
UpdateIncome(a, k, data) ==
    /\ pc = "idle"
    /\ quiet' = FALSE
    /\ IF ~Found(incomes, "incomes", k, a)
       THEN /\ answer' = ApiAnswer("update_income", "404", k, a)
            /\ UNCHANGED incomes
       ELSE /\ incomes' = [incomes EXCEPT ![k].description = data.description,
                                          ![k].value = data.value]
            /\ answer' = ApiAnswer("update_income", "200", k, a)
    /\ UNCHANGED <<now, reminders, outbox, pc, genLog, query, expenses, planned,
                   tokens, dashboard, aside>>

\* DELETE /api/income/{id}
DeleteIncome(a, k) ==
    /\ pc = "idle"
    /\ quiet' = FALSE
    /\ IF ~Found(incomes, "incomes", k, a)
       THEN /\ answer' = ApiAnswer("delete_income", "404", k, a)
            /\ UNCHANGED deleted
       ELSE /\ deleted' = deleted \cup {<<"incomes", k>>}
            /\ answer' = ApiAnswer("delete_income", "200", k, a)
    /\ UNCHANGED <<now, reminders, outbox, pc, genLog, query, ledger, scans,
                   categories>>

\* how many categories are created
MaxCategories == 1

\* POST /api/categories/{phone_number}
AddCategoryApi(a, name) ==
    /\ pc = "idle"
    /\ Len(categories) < MaxCategories
    /\ quiet' = FALSE
    /\ IF ~GetUserFromQuery(a)
       THEN /\ answer' = ApiAnswer("add_category_api", "404", 0, a)
            /\ UNCHANGED categories
       ELSE /\ categories' = Append(categories, [user_id |-> a, name |-> name])
            /\ answer' = ApiAnswer("add_category_api", "200",
                                   Len(categories) + 1, a)
    /\ UNCHANGED <<now, reminders, outbox, pc, genLog, query, ledger, scans,
                   deleted>>

\* PUT /api/category/{id}
UpdateCategoryApi(a, k, name) ==
    /\ pc = "idle"
    /\ quiet' = FALSE
    /\ IF ~Found(categories, "categories", k, a)
       THEN /\ answer' = ApiAnswer("update_category_api", "404", k, a)
            /\ UNCHANGED categories
       ELSE /\ categories' = [categories EXCEPT ![k].name = name]
            /\ answer' = ApiAnswer("update_category_api", "200", k, a)
    /\ UNCHANGED <<now, reminders, outbox, pc, genLog, query, ledger, scans,
                   deleted>>

\* DELETE /api/category/{id}
DeleteCategoryApi(a, k) ==
    /\ pc = "idle"
    /\ quiet' = FALSE
    /\ IF ~Found(categories, "categories", k, a)
       THEN /\ answer' = ApiAnswer("delete_category_api", "404", k, a)
            /\ UNCHANGED deleted
       ELSE /\ deleted' = deleted \cup {<<"categories", k>>}
            /\ answer' = ApiAnswer("delete_category_api", "200", k, a)
    /\ UNCHANGED <<now, reminders, outbox, pc, genLog, query, ledger, scans,
                   categories>>

\* DELETE /api/reminder/{id}
DeleteReminderApi(a, k) ==
    /\ pc = "idle"
    /\ quiet' = FALSE
    /\ IF ~Found(reminders, "reminders", k, a)
       THEN /\ answer' = ApiAnswer("delete_reminder_api", "404", k, a)
            /\ UNCHANGED deleted
       ELSE /\ deleted' = deleted \cup {<<"reminders", k>>}
            /\ answer' = ApiAnswer("delete_reminder_api", "200", k, a)
    /\ UNCHANGED <<now, reminders, outbox, pc, genLog, query, ledger, scans,
                   categories>>

\* PUT /api/planning/{id}
UpdatePlannedExpense(a, k, data) ==
    /\ pc = "idle"
    /\ quiet' = FALSE
    /\ IF ~Found(planned, "planned_expenses", k, a)
       THEN /\ answer' = ApiAnswer("update_planned_expense", "404", k, a)
            /\ UNCHANGED planned
       ELSE /\ planned' = [planned EXCEPT ![k].name = data.name,
                                          ![k].due_day = data.dueDay]
            /\ answer' = ApiAnswer("update_planned_expense", "200", k, a)
    /\ UNCHANGED <<now, reminders, outbox, pc, genLog, query, expenses, incomes,
                   tokens, dashboard, aside>>

\* DELETE /api/planning/{id}
DeletePlannedExpense(a, k) ==
    /\ pc = "idle"
    /\ quiet' = FALSE
    /\ IF ~Found(planned, "planned_expenses", k, a)
       THEN /\ answer' = ApiAnswer("delete_planned_expense", "404", k, a)
            /\ UNCHANGED deleted
       ELSE /\ deleted' = deleted \cup {<<"planned_expenses", k>>}
            /\ answer' = ApiAnswer("delete_planned_expense", "200", k, a)
    /\ UNCHANGED <<now, reminders, outbox, pc, genLog, query, ledger, scans,
                   categories>>

\* statuses[monthKey] = status, on the pairs of the JSON object
SetStatus(statuses, key, status) ==
    IF \E j \in DOMAIN statuses : statuses[j].key = key
    THEN [j \in DOMAIN statuses |->
             IF statuses[j].key = key
             THEN [key |-> key, status |-> status] ELSE statuses[j]]
    ELSE Append(statuses, [key |-> key, status |-> status])

\* PUT /api/planning/status/{id}
UpdatePlannedExpenseStatus(a, k, key, status) ==
    /\ pc = "idle"
    /\ quiet' = FALSE
    /\ IF ~Found(planned, "planned_expenses", k, a)
       THEN /\ answer' = ApiAnswer("update_planned_expense_status", "404", k, a)
            /\ UNCHANGED planned
       ELSE /\ planned' = [planned EXCEPT
                             ![k].statuses = SetStatus(@, key, status)]
            /\ answer' = ApiAnswer("update_planned_expense_status", "200", k, a)
    /\ UNCHANGED <<now, reminders, outbox, pc, genLog, query, expenses, incomes,
                   tokens, dashboard, aside>>

\* time passes
Advance ==
    /\ pc = "idle"
    /\ \E t \in ClockPoints : t > now /\ now' = t
    /\ quiet' = FALSE
    /\ UNCHANGED <<reminders, outbox, pc, genLog, query, answer, ledger,
                   aside>>

Init ==
    /\ now = FirstClockPoint
    /\ reminders = <<>>
    /\ outbox = EmptyBag
    /\ pc = "idle"
    /\ genLog = NoLog
    /\ quiet = FALSE
    /\ query = <<>>
    /\ answer = NoAnswer
    /\ expenses = <<>>
    /\ incomes = <<>>
    /\ planned = <<>>
    /\ tokens = <<>>
    /\ dashboard = FALSE
    /\ scans = NoScans
    /\ categories = <<>>
    /\ deleted = {}

Next ==
    \/ TriggerReminders
    \/ GenerateMonthlyReminders
    \/ CheckAndSendReminders
    \/ \E u \in Users, desc \in Descriptions, due \in DueChoices,
          rec \in {None, "monthly"} : CreateReminder(u, desc, due, rec)
    \/ Advance

Spec == Init /\ [][Next]_vars

-----------------------------------------------------------------------------
(* Reminders edited from the dashboard.                                    *)

\* the dates and times the dashboard sends: two that exist, one that does not
WallChoices ==
    { [year |-> 2024, month |-> 1, day |-> 31, hour |-> 8, minute |-> 0],
      [year |-> 2024, month |-> 2, day |-> 29, hour |-> 22, minute |-> 0],
      [year |-> 2024, month |-> 2, day |-> 30, hour |-> 8, minute |-> 0] }

\* the description the dashboard sends
EditedDescriptions == {"condominio"}

InitUpdate == Init

NextUpdate ==
    \/ \E u \in Users, desc \in Descriptions, due \in DueChoices,
          rec \in {None, "monthly"} : CreateReminder(u, desc, due, rec)
    \/ \E k \in 1..(MaxCreated + 1), u \in Users,
          desc \in EditedDescriptions, wall \in WallChoices,
          offset \in SessionOffsets : UpdateReminderApi(k, u, desc, wall, offset)

SpecUpdate == InitUpdate /\ [][NextUpdate]_vars

-----------------------------------------------------------------------------
(* The summaries on their own: requests arriving as time passes.           *)

RECURSIVE Str(_)
\* the decimal digits of n
Str(n) ==
    IF n < 10 THEN << Digits[n + 1] >>
    ELSE Str(n \div 10) \o << Digits[(n % 10) + 1] >>

\* the period text 'últimos n dias'
LastDays(n) == PatternHead \o Str(n) \o PatternTail

\* the month phrase, as a user capitalises it
ThisMonth == << "E", "s", "t", "e", " ", "M", "Ê", "S" >>

Today == << "h", "o", "j", "e" >>

Yesterday == << "O", "n", "t", "e", "m" >>

ThisWeek == << "e", "s", "t", "a", " ", "s", "e", "m", "a", "n", "a" >>

\* today and month
TodayInMonth ==
    << "h", "o", "j", "e", ",", " ", "n", "o", " ", "m", "ê", "s" >>

\* yesterday and today
YesterdayAndToday ==
    << "o", "n", "t", "e", "m", " ", "e", " ", "h", "o", "j", "e" >>

\* yesterday and week
YesterdayOrWeek ==
    << "o", "n", "t", "e", "m", " ", "o", "u", " ", "n", "a", " ", "s", "e",
       "m", "a", "n", "a" >>

\* the default of get_summary when the classifier gave no period
NotIdentified ==
    << "p", "e", "r", "í", "o", "d", "o", " ", "n", "ã", "o", " ", "i", "d",
       "e", "n", "t", "i", "f", "i", "c", "a", "d", "o" >>

\* the dynamic pattern without its accent
NoAccent ==
    << "u", "l", "t", "i", "m", "o", "s", " ", "3", " ", "d", "i", "a", "s" >>

\* the period texts the classifier hands to get_summary
PeriodTexts ==
    { ThisMonth, Today, Yesterday, ThisWeek, TodayInMonth, YesterdayAndToday,
      YesterdayOrWeek, NotIdentified, NoAccent }
    \cup { LastDays(n) : n \in 0..MaxDays }

Tomorrow == << "A", "m", "a", "n", "h", "ã" >>

\* a day of the calendar
MidMarch == << "1", "5", "/", "0", "3", "/", "2", "0", "2", "4" >>

\* the leap day
LeapDay ==
    << "d", "i", "a", " ", "2", "9", "/", "0", "2", "/", "2", "0", "2", "4" >>

\* dates that are no day of the calendar
AprilThirtyFirst == << "3", "1", "/", "0", "4", "/", "2", "0", "2", "4" >>

NoLeapDay == << "2", "9", "/", "0", "2", "/", "2", "0", "2", "5" >>

MonthThirteen == << "0", "1", "/", "1", "3", "/", "2", "0", "2", "4" >>

\* a date and today
NewYearOrToday ==
    << "0", "1", "/", "0", "1", "/", "2", "0", "2", "5", " ", "o", "u", " ",
       "h", "o", "j", "e" >>

\* the period texts the classifier hands to get_reminders
ListingTexts ==
    { Today, Tomorrow, MidMarch, LeapDay, AprilThirtyFirst, NoLeapDay,
      MonthThirteen, NewYearOrToday, ThisWeek }

\* the instants at which a summary is asked for: late evening of a leap day
\* (the UTC date is already the next day), the first of a month, mid-month,
\* and around the turn of the year
SummaryClockPoints ==
    { Civil(2024, 2, 29, 23, 30),
      Civil(2024, 3, 1, 10, 0),
      Civil(2024, 3, 15, 10, 0),
      Civil(2024, 12, 31, 22, 0),
      Civil(2025, 1, 1, 0, 30) }

FirstSummaryClockPoint == Civil(2024, 2, 29, 23, 30)

InitPeriod ==
    /\ now = FirstSummaryClockPoint
    /\ reminders = <<>>
    /\ outbox = EmptyBag
    /\ pc = "idle"
    /\ genLog = NoLog
    /\ quiet = FALSE
    /\ query = <<>>
    /\ answer = NoAnswer
    /\ expenses = <<>>
    /\ incomes = <<>>
    /\ planned = <<>>
    /\ tokens = <<>>
    /\ dashboard = FALSE
    /\ scans = NoScans
    /\ categories = <<>>
    /\ deleted = {}

\* time passes between two requests, up to one of the instants of points
PassTimeTo(points) ==
    /\ pc = "idle"
    /\ \E t \in points : t > now /\ now' = t
    /\ quiet' = FALSE
    /\ UNCHANGED <<reminders, outbox, pc, genLog, query, answer, ledger,
                   aside>>

PassTime == PassTimeTo(SummaryClockPoints)

NextPeriod ==
    \/ \E period \in PeriodTexts : GetSummary(1, period, <<>>)
    \/ \E period \in ListingTexts : GetReminders(1, period)
    \/ PassTime

SpecPeriod == InitPeriod /\ [][NextPeriod]_vars

-----------------------------------------------------------------------------
(* The dashboard login: summaries and links issue tokens, the dashboard    *)
(* redeems them.                                                           *)

\* a token is issued, then redeemed one minute before its expiry, at its
\* expiry, and later
TokenClockPoints ==
    { Civil(2024, 3, 1, 10, 0),
      Civil(2024, 3, 1, 10, 4),
      Civil(2024, 3, 1, 10, 5),
      Civil(2024, 3, 2, 10, 0) }

InitToken ==
    /\ now = Civil(2024, 3, 1, 10, 0)
    /\ reminders = <<>>
    /\ outbox = EmptyBag
    /\ pc = "idle"
    /\ genLog = NoLog
    /\ quiet = FALSE
    /\ query = <<>>
    /\ answer = NoAnswer
    /\ expenses = <<>>
    /\ incomes = <<>>
    /\ planned = <<>>
    /\ tokens = <<>>
    /\ dashboard = TRUE
    /\ scans = NoScans
    /\ categories = <<>>
    /\ deleted = {}

TokenPassTime == PassTimeTo(TokenClockPoints)

NextToken ==
    \/ \E u \in Users, period \in {Today, NotIdentified, NoAccent} :
          GetSummary(u, period, <<>>)
    \/ \E u \in Users,
          period \in {Today, AprilThirtyFirst, MonthThirteen, ThisWeek} :
          GetReminders(u, period)
    \/ \E u \in Users : GetDashboardLink(u)
    \/ \E k \in 1..(Len(tokens) + 1) : VerifyToken(k)
    \/ TokenPassTime

SpecToken == InitToken /\ [][NextToken]_vars

-----------------------------------------------------------------------------
(* The summaries over a ledger that fills as time passes.                  *)

RentAndLight ==
    << "a", "l", "u", "g", "u", "e", "l", " ", "e", " ", "l", "u", "z" >>

LightBill == << "C", "o", "n", "t", "a", " ", "d", "e", " ", "L", "U", "Z" >>

Housing == << "M", "o", "r", "a", "d", "i", "a" >>

HousingLower == << "m", "o", "r", "a", "d", "i", "a" >>

Salary == << "s", "a", "l", "á", "r", "i", "o" >>

\* what the classifier extracts from 'gastei ...' messages
ExpenseInputs ==
    { [description |-> RentAndLight, value |-> 120000, category |-> Housing],
      [description |-> LightBill, value |-> 25050, category |-> <<>>] }

\* what the classifier extracts from 'recebi ...' messages
IncomeInputs == { [description |-> Salary, value |-> 500000] }

\* the first minute of a leap day and the midnight that ends it
SummaryLedgerClockPoints ==
    { Civil(2024, 2, 29, 0, 0),
      Civil(2024, 3, 1, 0, 0) }

InitLedger ==
    /\ now = Civil(2024, 2, 29, 0, 0)
    /\ reminders = <<>>
    /\ outbox = EmptyBag
    /\ pc = "idle"
    /\ genLog = NoLog
    /\ quiet = FALSE
    /\ query = <<>>
    /\ answer = NoAnswer
    /\ expenses = <<>>
    /\ incomes = <<>>
    /\ planned = <<>>
    /\ tokens = <<>>
    /\ dashboard = FALSE
    /\ scans = NoScans
    /\ categories = <<>>
    /\ deleted = {}

LedgerPassTime == PassTimeTo(SummaryLedgerClockPoints)

NextLedger ==
    \/ \E u \in Users, input \in ExpenseInputs : RegisterExpense(u, input)
    \/ \E u \in Users, input \in IncomeInputs : RegisterIncome(u, input)
    \/ \E u \in Users, period \in {Today, Yesterday},
          category \in {<<>>, HousingLower} : GetSummary(u, period, category)
    \/ LedgerPassTime

SpecLedger == InitLedger /\ [][NextLedger]_vars

-----------------------------------------------------------------------------
(* The planning: planned expenses are added, expenses registered, and a    *)
(* month ends.                                                             *)

Light == << "L", "u", "z" >>

Rent == << "A", "l", "u", "g", "u", "e", "l" >>

\* the names of the planned expenses
PlannedNames == {Light, Rent}

\* the day of the month a planned expense is due
DueDay == 10

\* the last evening of March (already April in UTC) and an April morning
PlanningClockPoints ==
    { Civil(2024, 3, 31, 23, 0),
      Civil(2024, 4, 1, 9, 0) }

InitPlanning ==
    /\ now = Civil(2024, 3, 31, 23, 0)
    /\ reminders = <<>>
    /\ outbox = EmptyBag
    /\ pc = "idle"
    /\ genLog = NoLog
    /\ quiet = FALSE
    /\ query = <<>>
    /\ answer = NoAnswer
    /\ expenses = <<>>
    /\ incomes = <<>>
    /\ planned = <<>>
    /\ tokens = <<>>
    /\ dashboard = FALSE
    /\ scans = NoScans
    /\ categories = <<>>
    /\ deleted = {}

PlanningPassTime == PassTimeTo(PlanningClockPoints)

NextPlanning ==
    \/ \E u \in Users, name \in PlannedNames : AddPlannedExpense(u, name, DueDay)
    \/ \E u \in Users, input \in ExpenseInputs : RegisterExpense(u, input)
    \/ \E u \in Users, message \in MessageKinds, raised \in BOOLEAN :
          EvolutionWebhookNoResult(u, message, raised)
    \/ PlanningPassTime

SpecPlanning == InitPlanning /\ [][NextPlanning]_vars

-----------------------------------------------------------------------------
(* The direct-fire design of recurring reminders: a template carries its   *)
(* day of the month and its lead days, no punctual instance is spawned,    *)
(* and the maintenance tick sends the notice itself.  Here the table       *)
(* "reminders" holds such templates only.                                  *)

\* how many templates are created
MaxRecurring == 2

\* a cycle: a year and a month; no cycle before the first notice
NoCycle == [year |-> 0, month |-> 0]

Cycle(t) == [year |-> FieldsBrt(t).year, month |-> FieldsBrt(t).month]

\* a new recurring template
NewRecurring(u, desc, d, k) ==
    [user_id |-> u, description |-> desc, day_of_month |-> d,
     notification_day_offset |-> k, last_triggered |-> NoCycle]

\* the civil day of the month on which the template's notice goes out
TriggerDay(r) ==
    IF r.day_of_month - r.notification_day_offset > 1
    THEN r.day_of_month - r.notification_day_offset
    ELSE 1

\* the template is to fire at instant t: today is its trigger day and its
\* last cycle is not the current one
Fires(r, t) ==
    /\ FieldsBrt(t).day = TriggerDay(r)
    /\ r.last_triggered # Cycle(t)

\* the notice of template i at instant t, as handed to the sink
DirectNotice(i, r, t) ==
    [kind |-> "recurring", id |-> i, to |-> r.user_id, cycle |-> Cycle(t),
     day |-> FieldsBrt(t).day, at |-> t]

\* the tick leaves the template's last cycle as it was
StampForgotten(r, t) == r

\* the template after its notice: the current cycle is its last one
Stamp(r, t) == [r EXCEPT !.last_triggered = Cycle(t)]

\* the templates that fire at instant t
Firing(t) == { i \in Ids : Fires(reminders[i], t) }

\* one maintenance tick over all the templates
DirectFireTick ==
    /\ pc = "idle"
    /\ reminders' = [i \in Ids |->
                       IF i \in Firing(now) THEN Stamp(reminders[i], now)
                       ELSE reminders[i]]
    /\ outbox' = outbox (+) SetToBag({ DirectNotice(i, reminders[i], now) :
                                         i \in Firing(now) })
    /\ answer' = [action |-> "direct_fire_tick", kind |-> "tick",
                  at |-> now, fired |-> Firing(now)]
    /\ quiet' = FALSE
    /\ UNCHANGED <<now, pc, genLog, query, ledger, aside>>

\* a recurring template is created
AddRecurring(u, desc, d, k) ==
    /\ pc = "idle"
    /\ Len(reminders) < MaxRecurring
    /\ reminders' = Append(reminders, NewRecurring(u, desc, d, k))
    /\ answer' = [action |-> "add_recurring", kind |-> "created",
                  id |-> Len(reminders) + 1]
    /\ quiet' = FALSE
    /\ UNCHANGED <<now, outbox, pc, genLog, query, ledger, aside>>

\* the days of the month and the lead days the templates are given
DayChoices == {3, 10}

OffsetChoices == {0, 5}

\* ticks before, on and after day 5 of two consecutive months, and on the
\* first of the month
DirectFireClockPoints ==
    { Civil(2024, 3, 4, 9, 0),
      Civil(2024, 3, 5, 9, 0),
      Civil(2024, 3, 5, 18, 0),
      Civil(2024, 3, 10, 9, 0),
      Civil(2024, 4, 1, 9, 0),
      Civil(2024, 4, 5, 9, 0),
      Civil(2024, 4, 6, 9, 0) }

InitDirectFire ==
    /\ now = Civil(2024, 3, 4, 9, 0)
    /\ reminders = <<>>
    /\ outbox = EmptyBag
    /\ pc = "idle"
    /\ genLog = NoLog
    /\ quiet = FALSE
    /\ query = <<>>
    /\ answer = NoAnswer
    /\ expenses = <<>>
    /\ incomes = <<>>
    /\ planned = <<>>
    /\ tokens = <<>>
    /\ dashboard = FALSE
    /\ scans = NoScans
    /\ categories = <<>>
    /\ deleted = {}

DirectFirePassTime == PassTimeTo(DirectFireClockPoints)

NextDirectFire ==
    \/ \E d \in DayChoices, k \in OffsetChoices :
          AddRecurring(1, "aluguel", d, k)
    \/ DirectFireTick
    \/ DirectFirePassTime

SpecDirectFire == InitDirectFire /\ [][NextDirectFire]_vars

-----------------------------------------------------------------------------
(* Overlapping requests to the trigger.                                    *)

\* the due dates of the reminders of the overlapping scans
ScanDueChoices == { Civil(2024, 1, 30, 15, 0), Civil(2024, 1, 31, 8, 0) }

ScanClockPoints ==
    { Civil(2024, 1, 29, 12, 0),
      Civil(2024, 1, 30, 15, 0),
      Civil(2024, 1, 31, 8, 0) }

InitScan == Init

ScanPassTime == PassTimeTo(ScanClockPoints)

NextScan ==
    \/ \E due \in ScanDueChoices : CreateReminder(1, "aluguel", due, None)
    \/ \E p \in Invocations : ScanStart(p)
    \/ \E p \in Invocations : ScanSend(p)
    \/ ScanPassTime

SpecScan == InitScan /\ [][NextScan]_vars

-----------------------------------------------------------------------------
(* The life of a reminder's flags: both schedulers, the expansion, the     *)
(* chat action and the update from the dashboard.                          *)

\* how many reminders are created while both schedulers run, and how many
\* rows there may be for a tick to start
MaxFlagged == 1

FlagsDueChoices == { Civil(2024, 1, 31, 8, 0) }

\* the date and time an update moves a reminder to
FlagsWallChoices ==
    { [year |-> 2024, month |-> 1, day |-> 31, hour |-> 22, minute |-> 0] }

\* the eve of the due date with the window open, an hour after the due
\* date, and the day after
FlagsClockPoints ==
    { Civil(2024, 1, 30, 20, 30),
      Civil(2024, 1, 31, 9, 0),
      Civil(2024, 2, 1, 9, 0) }

InitFlags ==
    /\ now = Civil(2024, 1, 30, 20, 30)
    /\ reminders = <<>>
    /\ outbox = EmptyBag
    /\ pc = "idle"
    /\ genLog = NoLog
    /\ quiet = FALSE
    /\ query = <<>>
    /\ answer = NoAnswer
    /\ expenses = <<>>
    /\ incomes = <<>>
    /\ planned = <<>>
    /\ tokens = <<>>
    /\ dashboard = FALSE
    /\ scans = NoScans
    /\ categories = <<>>
    /\ deleted = {}

FlagsPassTime == PassTimeTo(FlagsClockPoints)

\* the database session is in UTC
NextFlags ==
    \/ \E due \in FlagsDueChoices, rec \in {None, "monthly"} :
          Len(reminders) < MaxFlagged /\ CreateReminder(1, "aluguel", due, rec)
    \/ Len(reminders) <= MaxFlagged /\ TriggerReminders
    \/ GenerateMonthlyReminders
    \/ CheckAndSendReminders
    \/ CronCheckAndSendReminders(0)
    \/ \E k \in 1..MaxCreated, desc \in EditedDescriptions,
          wall \in FlagsWallChoices : UpdateReminderApi(k, 1, desc, wall, 0)
    \/ FlagsPassTime

SpecFlags == InitFlags /\ [][NextFlags]_vars

-----------------------------------------------------------------------------
(* The dashboard API called by one user on another user's rows.            *)

\* how many rows the chat and the dashboard create in all
MaxApiRows == 1

ApiRows ==
    Len(expenses) + Len(incomes) + Len(planned) + Len(reminders)
    + Len(categories)

\* what the dashboard sends
ExpenseData == [description |-> LightBill, value |-> 9900, category |-> Housing]

IncomeData == [description |-> Salary, value |-> 9900]

PlannedData == [name |-> Rent, dueDay |-> 5]

ApiWall == [year |-> 2024, month |-> 1, day |-> 31, hour |-> 8, minute |-> 0]

ApiMonthKey == [year |-> 2024, month |-> 1]

\* the dashboard is configured
InitApi == InitToken

NextApi ==
    \/ \E u \in Users : GetDashboardLink(u)
    \/ \E u \in Users :
          /\ ApiRows < MaxApiRows
          /\ RegisterExpense(u, [description |-> Salary, value |-> 25050,
                                 category |-> <<>>])
    \/ \E u \in Users, input \in IncomeInputs :
          ApiRows < MaxApiRows /\ RegisterIncome(u, input)
    \/ \E u \in Users : ApiRows < MaxApiRows /\ AddPlannedExpense(u, Light, DueDay)
    \/ \E u \in Users :
          /\ ApiRows < MaxApiRows
          /\ CreateReminder(u, "aluguel", Civil(2024, 1, 30, 15, 0), None)
    \/ \E a \in Users : ApiRows < MaxApiRows /\ AddCategoryApi(a, Housing)
    \/ \E a \in Users, k \in 1..MaxApiRows : UpdateExpense(a, k, ExpenseData)
    \/ \E a \in Users, k \in 1..MaxApiRows : DeleteExpense(a, k)
    \/ \E a \in Users, k \in 1..MaxApiRows : UpdateIncome(a, k, IncomeData)
    \/ \E a \in Users, k \in 1..MaxApiRows : DeleteIncome(a, k)
    \/ \E a \in Users, k \in 1..MaxApiRows : UpdateCategoryApi(a, k, HousingLower)
    \/ \E a \in Users, k \in 1..MaxApiRows : DeleteCategoryApi(a, k)
    \/ \E a \in Users, k \in 1..MaxApiRows :
          UpdateReminderApi(k, a, "condominio", ApiWall, BrtOffset)
    \/ \E a \in Users, k \in 1..MaxApiRows : DeleteReminderApi(a, k)
    \/ \E a \in Users, k \in 1..MaxApiRows : UpdatePlannedExpense(a, k, PlannedData)
    \/ \E a \in Users, k \in 1..MaxApiRows : DeletePlannedExpense(a, k)
    \/ \E a \in Users, k \in 1..MaxApiRows :
          UpdatePlannedExpenseStatus(a, k, ApiMonthKey, "Pago")

SpecApi == InitApi /\ [][NextApi]_vars

-----------------------------------------------------------------------------
(* Properties of the maintenance tick.                                     *)

\* how many notices of one kind row i has received
NoticeCount(box, kind, i) ==
    LET S == { m \in BagToSet(box) : m.kind = kind /\ m.rid = i }
    IN  BagCardinality([m \in S |-> box[m]])

\* the messages a step hands to the sink
Added == BagToSet(outbox' (-) outbox)

\* a step of a tick that follows a completed tick with nothing in between
SecondTickStep == quiet /\ quiet'

\* C1: a second tick run right after a first one, at the same time and with
\* no event in between, creates no row, moves no template's due_date and
\* dispatches no notice.
C1_SecondTickChangesNothing ==
    [][SecondTickStep =>
          /\ Len(reminders') = Len(reminders)
          /\ \A i \in Ids : reminders[i].recurrence = "monthly"
                            => reminders'[i].due_date = reminders[i].due_date
          /\ outbox' = outbox]_vars

\* C2: within one tick (hence within one civil day) an occurrence of a
\* template never gets a notice both for the template row and for the
\* punctual instance the tick spawned for it.
C2_OneNoticePerOccurrence ==
    [][pc = "check" =>
          \A m1, m2 \in Added :
             ~ /\ reminders[m1.rid].recurrence = "monthly"
               /\ m2.rid > genLog.base
               /\ m1.kind = m2.kind
               /\ m1.to = m2.to
               /\ m1.description = m2.description
               /\ m1.due_date = m2.due_date]_vars

\* C3: the scan dispatches every row that is due and unsent exactly once
\* and flags it sent, and no row ever receives two exact-time notices.
C3_DueDispatchedOnce ==
    /\ [](\A i \in Ids : NoticeCount(outbox, "exact", i) <= 1)
    /\ [][pc = "check" =>
             \A i \in Ids :
                (reminders[i].due_date <= now /\ reminders[i].is_sent = "false")
                => /\ reminders'[i].is_sent = "true"
                   /\ NoticeCount(outbox', "exact", i)
                      = NoticeCount(outbox, "exact", i) + 1]_vars

\* C3 happens: two rows were due in the same scan, both got their one notice
C3_Witness ==
    \E i, j \in Ids :
        /\ i # j
        /\ reminders[i].is_sent = "true" /\ reminders[j].is_sent = "true"
        /\ NoticeCount(outbox, "exact", i) = 1
        /\ NoticeCount(outbox, "exact", j) = 1

\* C4: a reminder whose exact-time notice could not be delivered stays
\* unsent, so that the next tick tries again.
C4_FailedDeliveryStaysUnsent ==
    [][pc = "check" =>
          \A m \in Added :
             (m.kind = "exact" /\ ~m.ok) => reminders'[m.rid].is_sent = "false"]_vars

\* the templates of the last expansion that failed
Failed(log) == { k \in DOMAIN log.order : log.out[k].kind = "error" }

\* C5: when the expansion of one template fails, what the templates processed
\* before it created and advanced is still in the table after the run.
C5_EarlierTemplatesPersist ==
    pc = "check" =>
       \A k \in DOMAIN genLog.order :
          genLog.out[k].kind = "create"
          => /\ reminders[genLog.order[k]].due_date = genLog.out[k].due
             /\ \E j \in Ids :
                   /\ j > genLog.base
                   /\ reminders[j].due_date = genLog.out[k].due
                   /\ reminders[j].recurrence = None
                   /\ reminders[j].user_id = reminders[genLog.order[k]].user_id

\* the reminder of the scenario: due at 08:00 civil-local on 2024-01-31
ScenarioRow(i) ==
    /\ reminders[i].due_date = Civil(2024, 1, 31, 8, 0)
    /\ reminders[i].recurrence = None

\* C6: a punctual reminder receives at most one pre-notice; for one due at
\* 08:00 tomorrow the tick at 19:59 sends none, the tick at 20:01 sends
\* exactly one and sets pre_reminder_sent, and a tick at 20:30 sends none.
C6_PreNoticeOnce ==
    /\ [](\A i \in Ids : NoticeCount(outbox, "pre", i) <= 1)
    /\ [][pc = "check" =>
             \A i \in Ids : ScenarioRow(i) =>
                /\ now = Civil(2024, 1, 30, 19, 59)
                   => NoticeCount(outbox', "pre", i) = 0
                /\ ( /\ now = Civil(2024, 1, 30, 20, 1)
                     /\ reminders[i].is_sent = "false"
                     /\ reminders[i].pre_reminder_sent = "false" )
                   => /\ NoticeCount(outbox', "pre", i) = 1
                      /\ reminders'[i].pre_reminder_sent = "true"
                /\ ( /\ now = Civil(2024, 1, 30, 20, 30)
                     /\ reminders[i].pre_reminder_sent = "true" )
                   => NoticeCount(outbox', "pre", i)
                      = NoticeCount(outbox, "pre", i)]_vars

\* C6 happens: the tick at 20:30 has run and the reminder holds its one
\* pre-notice
C6_Witness ==
    /\ now = Civil(2024, 1, 30, 20, 30)
    /\ quiet
    /\ \E i \in Ids : /\ ScenarioRow(i)
                      /\ reminders[i].pre_reminder_sent = "true"
                      /\ NoticeCount(outbox, "pre", i) = 1

\* the civil day and the minute of the civil day of an instant
CivilDay(t) == (t - BrtOffset) \div MinutesPerDay

CivilMinute(t) == (t - BrtOffset) % MinutesPerDay

\* civil-local t is at or after the window start of a reminder due at due:
\* 20:00 of the day before the due day when it is due before noon, 09:00 of
\* the due day otherwise
WindowOpen(t, due) ==
    IF CivilMinute(due) < 12 * 60
    THEN \/ CivilDay(t) > CivilDay(due) - 1
         \/ CivilDay(t) = CivilDay(due) - 1 /\ CivilMinute(t) >= 20 * 60
    ELSE \/ CivilDay(t) > CivilDay(due)
         \/ CivilDay(t) = CivilDay(due) /\ CivilMinute(t) >= 9 * 60

\* C7: a pre-notice goes out only for a row that is unsent, not yet
\* pre-noticed, due strictly after now, and whose window has opened.
C7_PreNoticeOnlyInWindow ==
    [][pc = "check" =>
          \A m \in Added : m.kind = "pre" =>
             /\ reminders[m.rid].is_sent = "false"
             /\ reminders[m.rid].pre_reminder_sent = "false"
             /\ reminders[m.rid].due_date > now
             /\ WindowOpen(now, reminders[m.rid].due_date)]_vars

\* C7 happens: a morning reminder and an afternoon reminder both got their
\* pre-notice
C7_Witness ==
    \E m1, m2 \in BagToSet(outbox) :
        /\ m1.kind = "pre" /\ CivilMinute(m1.due_date) < 12 * 60
        /\ m2.kind = "pre" /\ CivilMinute(m2.due_date) >= 12 * 60

\* C8: the scan runs after the expansion of the same tick has committed: an
\* instance the expansion created that is already due is in the table and
\* gets its exact-time notice in that scan.
C8_ExpansionBeforeScan ==
    [][pc = "check" =>
          /\ genLog.ran
          /\ \A k \in DOMAIN genLog.order :
                ( /\ genLog.out[k].kind = "create"
                  /\ \A e \in Failed(genLog) : e < k
                  /\ genLog.out[k].due <= now )
                => \E j \in Ids :
                      /\ j > genLog.base
                      /\ reminders[j].recurrence = None
                      /\ reminders[j].due_date = genLog.out[k].due
                      /\ reminders[j].user_id = reminders[genLog.order[k]].user_id
                      /\ reminders'[j].is_sent = "true"
                      /\ \E m \in Added : m.rid = j /\ m.kind = "exact"]_vars

\* C8 happens: an instance spawned for 2024-03-31 08:00 by the tick at that
\* very minute was dispatched by it
C8_Witness ==
    /\ now = Civil(2024, 3, 31, 8, 0)
    /\ quiet
    /\ \E j \in Ids : /\ reminders[j].recurrence = None
                      /\ reminders[j].due_date = now
                      /\ reminders[j].is_sent = "true"
                      /\ NoticeCount(outbox, "exact", j) = 1

-----------------------------------------------------------------------------
(* Properties of the period resolver.                                      *)

\* the first instant of civil day d
CivilMidnight(d) == d * MinutesPerDay + BrtOffset

\* the first instant of the civil month of instant t
CivilMonthStart(t) ==
    LET f == FieldsBrt(t) IN Civil(f.year, f.month, 1, 0, 0)

\* the interval of the first of the four token rules that the lower-cased
\* text matches, for a request made at instant t; <<>> when none does
TokenRule(text, t) ==
    LET l == Lower(text)
        d == CivilDay(t)
    IN  IF Contains(l, TokenMonth)
        THEN << CivilMonthStart(t), CivilMidnight(d + 1) >>
        ELSE IF Contains(l, TokenToday)
        THEN << CivilMidnight(d), CivilMidnight(d + 1) >>
        ELSE IF Contains(l, TokenYesterday)
        THEN << CivilMidnight(d - 1), CivilMidnight(d) >>
        ELSE IF Contains(l, TokenWeek) \/ Contains(l, TokenSevenDays)
        THEN << CivilMidnight(d - 6), CivilMidnight(d + 1) >>
        ELSE <<>>

\* the summary answered with the interval from a to b, for expenses and
\* incomes alike
Resolved(a, b) ==
    /\ answer.kind = "summary"
    /\ answer.expenses = Interval(a, b)
    /\ answer.incomes = Interval(a, b)

\* the window of n civil days that ends with the day of instant t
LastDaysWindow(n, t) ==
    << CivilMidnight(CivilDay(t) - (n - 1)), CivilMidnight(CivilDay(t) + 1) >>

\* C9: a summary request resolves the interval of the first rule its
\* lower-cased text matches, in the order month, today, yesterday, week or
\* '7 dias', 'últimos N dias'; at 2024-03-15 10:00 the month phrase gives
\* [2024-03-01, 2024-03-16) and at 2024-03-01 10:00 'ontem' gives
\* [2024-02-29, 2024-03-01).
C9_FirstMatchingRule ==
    answer.action = "get_summary" =>
       /\ TokenRule(query, answer.at) # <<>>
          => Resolved(TokenRule(query, answer.at)[1],
                      TokenRule(query, answer.at)[2])
       /\ \A n \in 1..MaxDays :
             (query = LastDays(n) /\ TokenRule(query, answer.at) = <<>>)
             => Resolved(LastDaysWindow(n, answer.at)[1],
                         LastDaysWindow(n, answer.at)[2])
       /\ (query = ThisMonth /\ answer.at = Civil(2024, 3, 15, 10, 0))
          => Resolved(Civil(2024, 3, 1, 0, 0), Civil(2024, 3, 16, 0, 0))
       /\ (query = Yesterday /\ answer.at = Civil(2024, 3, 1, 10, 0))
          => Resolved(Civil(2024, 2, 29, 0, 0), Civil(2024, 3, 1, 0, 0))

\* C9 happens: a text naming both today and the month, asked at
\* 2024-03-15 10:00, was answered with the month's interval
C9_Witness ==
    /\ answer.action = "get_summary"
    /\ query = TodayInMonth
    /\ answer.kind = "summary"
    /\ answer.at = Civil(2024, 3, 15, 10, 0)
    /\ answer.expenses = Interval(Civil(2024, 3, 1, 0, 0), Civil(2024, 3, 16, 0, 0))

\* C10: for every N >= 1 the period text 'últimos N dias' resolves to the
\* window of exactly N civil days that ends today.
C10_LastDaysWindow ==
    \A n \in 1..MaxDays :
       (answer.action = "get_summary" /\ query = LastDays(n))
       => Resolved(LastDaysWindow(n, answer.at)[1],
                   LastDaysWindow(n, answer.at)[2])

\* the intervals an answer carries
AnswerIntervals ==
    IF answer.kind = "summary" THEN {answer.expenses, answer.incomes}
    ELSE IF answer.kind = "reminders" THEN {answer.interval}
    ELSE {}

\* C11: every interval the resolvers return, 'últimos N dias' for every
\* N >= 0 included, ends strictly after it starts and has both boundaries at
\* 00:00 civil-local.
C11_IntervalWellFormed ==
    \A i \in AnswerIntervals :
       /\ i.start < i.end
       /\ CivilMinute(i.start) = 0
       /\ CivilMinute(i.end) = 0

-----------------------------------------------------------------------------
(* Properties of the clarification and of the login token.                 *)

\* period texts that match no rule of the summaries
UnmatchedSummaryTexts == {NotIdentified, NoAccent}

\* period texts that match no rule of the listing, or name no day of the
\* calendar
UnmatchedListingTexts == {AprilThirtyFirst, MonthThirteen, ThisWeek}

\* the step answers a request for a period no rule matches
UnmatchedRequest ==
    /\ answer' # answer
    /\ \/ answer'.action = "get_summary" /\ query' \in UnmatchedSummaryTexts
       \/ answer'.action = "get_reminders" /\ query' \in UnmatchedListingTexts

\* C12: a summary or listing request whose period matches no rule (a
\* dd/mm/yyyy text that is no day of the calendar included) sends exactly one
\* clarification, reads no table, issues no token and changes no stored row.
C12_UnmatchedOnlyClarifies ==
    [][UnmatchedRequest =>
          /\ answer'.sent = <<"clarify">>
          /\ answer'.queried = {}
          /\ tokens' = tokens
          /\ UNCHANGED <<reminders, expenses, incomes, planned>>]_vars

\* C12 happens: 31/04/2024 was asked of the listing and clarified, while an
\* earlier summary had issued its token
C12_Witness ==
    /\ answer.action = "get_reminders"
    /\ query = AprilThirtyFirst
    /\ answer.kind = "clarify"
    /\ Len(tokens) = 1

\* C16: verify_token accepts a token only when it is live and strictly
\* before its expiry, 5 minutes after issue; every call that finds the token
\* deletes it, a deleted token never comes back, and a call on a deleted or
\* unknown token answers 404: so at most one call is accepted.
C16_TokenSingleUse ==
    /\ [](\A k \in DOMAIN tokens :
             tokens[k].live => tokens[k].expires_at <= now + ExpiryMinutes)
    /\ [][\A k \in DOMAIN tokens : ~tokens[k].live => ~tokens'[k].live]_vars
    /\ [][(answer'.action = "verify_token" /\ answer' # answer) =>
             LET k == answer'.token
                 found == k \in DOMAIN tokens /\ tokens[k].live
             IN  /\ answer'.kind = "200"
                    <=> (found /\ now < tokens[k].expires_at)
                 /\ answer'.kind = "200"
                    => answer'.phone_number = tokens[k].user_id
                 /\ found => ~tokens'[k].live]_vars

\* C16 happens: a token was presented at its expiry, refused and deleted
C16_Witness ==
    /\ Len(tokens) = 1
    /\ ~tokens[1].live
    /\ answer.action = "verify_token"
    /\ answer.kind = "404"
    /\ answer.token \in DOMAIN tokens
    /\ answer.at = tokens[answer.token].expires_at

-----------------------------------------------------------------------------
(* Properties of the ledger.                                               *)

\* the expenses a summary of user u over [a, b), restricted to category
\* when one is given, has to show
Expected(db, u, a, b, category) ==
    { i \in DOMAIN db :
        /\ db[i].user_id = u
        /\ a <= db[i].transaction_date
        /\ db[i].transaction_date < b
        /\ category = <<>> \/ Lower(db[i].category) = Lower(category) }

RECURSIVE Total(_, _)
\* the sum of the values of the rows S
Total(db, S) ==
    IF S = {} THEN 0
    ELSE LET i == CHOOSE j \in S : TRUE
         IN  db[i].value + Total(db, S \ {i})

StatusOf(row, key) ==
    IF \E k \in DOMAIN row.statuses : row.statuses[k].key = key
    THEN row.statuses[CHOOSE k \in DOMAIN row.statuses :
                         row.statuses[k].key = key].status
    ELSE ""

\* the month keys a planned expense holds a status for
KeysOf(row) == { row.statuses[k].key : k \in DOMAIN row.statuses }

\* C17: after a register_expense every planned expense of the user whose
\* lower-cased name is in the lower-cased description is 'Pago' for the
\* current civil month; its other months, the planned expenses that do not
\* match and those of other users are as before; and registering the same
\* expense again changes no status.
C17_MatchingPlannedPaid ==
    [][Len(expenses') = Len(expenses) + 1 =>
          LET e == expenses'[Len(expenses')]
              key == MonthKey(now)
          IN  /\ \A i \in DOMAIN planned :
                    IF /\ planned[i].user_id = e.user_id
                       /\ Contains(Lower(e.description), Lower(planned[i].name))
                    THEN /\ StatusOf(planned'[i], key) = "Pago"
                         /\ \A other \in KeysOf(planned[i]) \ {key} :
                               StatusOf(planned'[i], other)
                               = StatusOf(planned[i], other)
                    ELSE planned'[i] = planned[i]
              /\ ( /\ answer.action = "register_expense"
                   /\ expenses # <<>>
                   /\ expenses[Len(expenses)].user_id = e.user_id
                   /\ expenses[Len(expenses)].description = e.description
                   /\ MonthKey(expenses[Len(expenses)].transaction_date) = key )
                 => planned' = planned]_vars

-----------------------------------------------------------------------------
(* Properties of the monthly expansion.                                    *)

\* the month after month m of year y
MonthAfter(y, m) ==
    IF m = 12 THEN [year |-> y + 1, month |-> 1] ELSE [year |-> y, month |-> m + 1]

\* the instant of fields f moved to the month ym, its day clamped to the
\* length of that month
ClampedInto(f, ym) ==
    Instant([f EXCEPT !.year = ym.year, !.month = ym.month,
                      !.day = IF f.day > DaysInMonth(ym.year, ym.month)
                              THEN DaysInMonth(ym.year, ym.month) ELSE f.day])

\* the month the next occurrence of a template due at due is looked for in,
\* at instant t: the month after due's, or the month of t when that
\* occurrence is already past
TargetMonth(due, t) ==
    LET f == Fields(due)
        after == MonthAfter(f.year, f.month)
    IN  IF ClampedInto(f, after) < t
        THEN [year |-> Fields(t).year, month |-> Fields(t).month]
        ELSE after

\* C14: when the day of a template does not exist in the month its next
\* occurrence is looked for in, on the add-one-month path and on the
\* jump-to-current-month path alike, the template does not fail and the
\* occurrence is the last day of that month (unless that day too is past).
C14_ClampedToMonthEnd ==
    [][pc = "generate" =>
          \A k \in DOMAIN genLog'.order :
             LET due == reminders[genLog'.order[k]].due_date
                 f == Fields(due)
                 target == TargetMonth(due, now)
                 out == genLog'.out[k]
             IN  f.day > DaysInMonth(target.year, target.month)
                 => /\ out.kind # "error"
                    /\ ClampedInto(f, target) >= now
                       => out.due = ClampedInto(f, target)]_vars

\* a punctual reminder of the user and description of template row tpl is
\* due on the civil day of instant next
SameCivilDay(db, tpl, next) ==
    \E j \in DOMAIN db :
        /\ db[j].recurrence = None
        /\ db[j].user_id = tpl.user_id
        /\ db[j].description = tpl.description
        /\ CivilDay(db[j].due_date) = CivilDay(next)

\* C15: for every template whose next occurrence the expansion computes:
\* when a punctual reminder of the same user and description is already due
\* on the civil-local day of that occurrence, no instance is created and the
\* template keeps its due_date; otherwise one punctual instance is inserted
\* at the occurrence and the template's due_date moves to it.
C15_DuplicateCheckOnCivilDay ==
    [][pc = "generate" =>
          \A k \in DOMAIN genLog'.order :
             LET i == genLog'.order[k]
                 out == genLog'.out[k]
                 created == { j \in DOMAIN reminders' :
                                /\ j > Len(reminders)
                                /\ reminders'[j].recurrence = None
                                /\ reminders'[j].user_id = reminders[i].user_id
                                /\ reminders'[j].description
                                   = reminders[i].description
                                /\ reminders'[j].due_date = out.due }
             IN  out.kind # "error" =>
                    IF SameCivilDay(reminders, reminders[i], out.due)
                    THEN /\ created = {}
                         /\ reminders'[i].due_date = reminders[i].due_date
                    ELSE /\ created # {}
                         /\ reminders'[i].due_date = out.due]_vars

-----------------------------------------------------------------------------
(* Properties of the webhook.                                              *)

\* C18: when the classifier gives no result for an inbound message, the user
\* gets exactly one apology, and no expense, income or reminder is recorded.
C18_ClassifierFailureApology ==
    [][(answer'.action = "evolution_webhook" /\ answer' # answer) =>
          /\ answer'.sent = <<"apology">>
          /\ UNCHANGED <<expenses, incomes, reminders>>]_vars

-----------------------------------------------------------------------------
(* Properties of the stored due date.                                      *)

\* C19: every write of a reminder's due_date stores the instant at which the
\* civil clock of America/Sao_Paulo shows the date and time that was supplied:
\* the chat action stores one of the civil instants it was given, and an
\* accepted update stores the civil instant of the date and time it was sent.
C19_DueDateCivilLocal ==
    [][/\ (pc = "idle" /\ Len(reminders') > Len(reminders)) =>
             reminders'[Len(reminders')].due_date \in DueChoices
       /\ (answer'.action = "update_reminder_api" /\ answer'.kind = "200"
           /\ answer' # answer) =>
             reminders'[answer'.id].due_date = InstantBrt(answer'.supplied)]_vars

-----------------------------------------------------------------------------
(* Properties of the direct-fire design.                                   *)

\* the notices sent for template i in cycle c
NoticesOf(i, c) ==
    { n \in BagToSet(outbox) : n.kind = "recurring" /\ n.id = i /\ n.cycle = c }

\* C20: a tick sends a template's notice only on civil day max(1, d - k) and
\* only if the template's last cycle is not the current one, and then stamps
\* the current cycle; on that day a tick leaves the template stamped, so each
\* template gets exactly one notice in a month whose trigger day saw a tick,
\* and never two in one month.
C20_DirectFireOncePerMonth ==
    /\ [](\A n \in BagToSet(outbox) :
            /\ CopiesIn(n, outbox) = 1
            /\ NoticesOf(n.id, n.cycle) = {n}
            /\ n.day = TriggerDay(reminders[n.id]))
    /\ [][(answer'.action = "direct_fire_tick" /\ answer' # answer) =>
            \A i \in Ids :
               /\ i \in answer'.fired <=>
                    /\ FieldsBrt(now).day = TriggerDay(reminders[i])
                    /\ reminders[i].last_triggered # Cycle(now)
               /\ i \in answer'.fired =>
                    /\ reminders'[i].last_triggered = Cycle(now)
                    /\ CopiesIn(DirectNotice(i, reminders[i], now), outbox') = 1
               /\ FieldsBrt(now).day = TriggerDay(reminders[i]) =>
                    /\ reminders'[i].last_triggered = Cycle(now)
                    /\ Cardinality(NoticesOf(i, Cycle(now))') = 1
               /\ i \notin answer'.fired => reminders'[i] = reminders[i]]_vars

\* day 10 with 5 lead days: one notice on 5 March, one on 5 April, and a
\* second tick on 5 April has sent nothing
C20_Witness ==
    /\ answer.action = "direct_fire_tick"
    /\ answer.fired = {}
    /\ Len(reminders) >= 1
    /\ reminders[1].day_of_month = 10
    /\ reminders[1].notification_day_offset = 5
    /\ FieldsBrt(now).day = 5
    /\ reminders[1].last_triggered = Cycle(now)
    /\ Cardinality(NoticesOf(1, [year |-> 2024, month |-> 3])) = 1
    /\ Cardinality(NoticesOf(1, [year |-> 2024, month |-> 4])) = 1

-----------------------------------------------------------------------------
(* Properties of overlapping scans.                                        *)

\* the exact-time notices handed to the sink for row i
ExactCount(i) ==
    CopiesIn(Message("exact", i, reminders[i], TRUE), outbox)
    + CopiesIn(Message("exact", i, reminders[i], FALSE), outbox)

\* the runs that still hold row i among the rows they loaded
Holding(i) == { p \in Invocations : scans[p].at = "loop" /\ i \in scans[p].due }

\* C21: a run that loaded a due row sends its exact-time notice when it gets
\* to the row, whether or not another run has flagged the row in between:
\* every row is sent once by each run that loaded it, so two runs that both
\* loaded it before either committed send it twice.
C21_OverlappingScansDoubleFire ==
    [][\A p \in Invocations : \A i \in Ids :
          (p \in Holding(i) /\ p \notin Holding(i)') =>
             /\ ExactCount(i)' = ExactCount(i) + 1
             /\ reminders'[i].is_sent = "true"]_vars

\* both runs loaded the same row before either flagged it, and the row's
\* exact-time notice has gone out twice
C21_Witness ==
    \E i \in Ids :
        /\ ExactCount(i) = 2
        /\ Holding(i) = {}
        /\ reminders[i].is_sent = "true"

-----------------------------------------------------------------------------
(* Properties of the cron script.                                          *)

\* the messages of the given kind handed to the sink for row i
NoticesOfKind(kind, i) ==
    { m \in BagToSet(outbox) : m.kind = kind /\ m.rid = i }

\* C22: every row that is pending when a run of the cron script starts is
\* flagged is_sent = 'true' when the run ends, however its delivery went; a
\* flagged row stays flagged, so no later run finds it pending again and it
\* gets at most one message from the script.
C22_CronFlagsEveryPendingRow ==
    /\ [][(answer'.action = "send_reminders" /\ answer' # answer) =>
             \A i \in answer'.pending :
                /\ reminders[i].is_sent = "false"
                /\ reminders'[i].is_sent = "true"]_vars
    /\ [][\A i \in Ids :
             reminders[i].is_sent = "true" => reminders'[i].is_sent = "true"]_vars
    /\ [](\A i \in Ids :
             /\ Cardinality(NoticesOfKind("cron", i)) <= 1
             /\ \A m \in NoticesOfKind("cron", i) : CopiesIn(m, outbox) = 1)

\* a run of the script found a row pending, handed no message to the sink
\* for it (the body raised, or the user was missing), and the row is flagged
C22_Witness ==
    /\ answer.action = "send_reminders"
    /\ \E i \in answer.pending :
          /\ NoticesOfKind("cron", i) = {}
          /\ NoticesOfKind("exact", i) = {}
          /\ reminders[i].is_sent = "true"

-----------------------------------------------------------------------------
(* Properties of the template rows.                                        *)

\* C23: the scheduler of main.py sends pre-notices and exact-time notices
\* for punctual rows only: a row with recurrence 'monthly' gets no notice and
\* neither of its flags is ever set.
C23_TemplatesGetNoNotice ==
    /\ \A i \in Ids :
          reminders[i].recurrence = "monthly" =>
             /\ reminders[i].is_sent = "false"
             /\ reminders[i].pre_reminder_sent = "false"
    /\ \A m \in BagToSet(outbox) :
          m.kind \in {"pre", "exact"} => reminders[m.rid].recurrence = None

-----------------------------------------------------------------------------
(* Properties of the first occurrence of a recurring reminder.             *)

\* C24: an occurrence of a recurring reminder that is still in the future
\* when the expansion runs is not lost to it: after the expansion some row of
\* the same user and description is still due at that instant, so that the
\* first tick at or after it sends its exact-time notice.
C24_FirstOccurrenceKept ==
    [][(pc = "generate" /\ pc' = "check") =>
          \A i \in Templates(reminders) :
             reminders[i].due_date > now =>
                \E j \in DOMAIN reminders' :
                   /\ reminders'[j].user_id = reminders[i].user_id
                   /\ reminders'[j].description = reminders[i].description
                   /\ reminders'[j].due_date = reminders[i].due_date]_vars

-----------------------------------------------------------------------------
(* Properties of the day of the month across expansions.                   *)

\* the days of the month the reminders are created with, on the stored
\* fields the expansion computes with
CreatedDays == { Fields(due).day : due \in DueChoices }

\* day d in the month of instant t, clamped to the month's end
ClampedDay(d, t) ==
    IF d < DaysInMonth(Fields(t).year, Fields(t).month)
    THEN d ELSE DaysInMonth(Fields(t).year, Fields(t).month)

\* C25: whatever the number of expansions, every row falls on the day of the
\* month its template was created with, clamped to the end of the row's own
\* month: after a shorter month the day comes back (31, then 29 February,
\* then 31 March).
C25_DayOfMonthNeverDrifts ==
    \A i \in Ids :
        \E d \in CreatedDays :
            Fields(reminders[i].due_date).day = ClampedDay(d, reminders[i].due_date)

-----------------------------------------------------------------------------
(* Properties of a reminder moved from the dashboard.                      *)

\* C26: once an update has moved a punctual reminder to an instant T that was
\* still to come, every tick that ends at or after T leaves an exact-time
\* notice for T behind, whatever the reminder's flags were when it was moved.
C26_MovedReminderIsNoticed ==
    [][(/\ pc = "check" /\ pc' = "idle"
        /\ answer.action = "update_reminder_api"
        /\ answer.kind = "200"
        /\ answer.due_date > answer.at
        /\ answer.due_date <= now
        /\ reminders[answer.id].recurrence = None) =>
          \E m \in BagToSet(outbox') :
             /\ m.kind = "exact"
             /\ m.rid = answer.id
             /\ m.due_date = answer.due_date]_vars

-----------------------------------------------------------------------------
(* Properties of the flags.                                                *)

\* C27: under both schedulers, the expansion, the chat action and the update
\* from the dashboard, a reminder's flags only move forward: is_sent and
\* pre_reminder_sent never go from 'true' to 'false', and a reminder that is
\* sent without a pre-notice never gets one afterwards.
C27_FlagsMonotonic ==
    [][\A i \in Ids :
          /\ reminders[i].is_sent = "true" => reminders'[i].is_sent = "true"
          /\ reminders[i].pre_reminder_sent = "true" =>
                reminders'[i].pre_reminder_sent = "true"
          /\ (reminders[i].is_sent = "true"
              /\ reminders[i].pre_reminder_sent = "false") =>
                reminders'[i].pre_reminder_sent = "false"]_vars

\* a reminder that got its pre-notice and its notice was moved from the
\* dashboard to an instant still to come, and both flags are still set
C27_Witness ==
    /\ answer.action = "update_reminder_api"
    /\ answer.kind = "200"
    /\ reminders[answer.id].due_date > now
    /\ reminders[answer.id].is_sent = "true"
    /\ reminders[answer.id].pre_reminder_sent = "true"

-----------------------------------------------------------------------------
(* Properties of the dashboard API.                                        *)

\* the table each update or delete route works on
ApiTable ==
    [update_expense |-> "expenses", delete_expense |-> "expenses",
     update_income |-> "incomes", delete_income |-> "incomes",
     update_category_api |-> "categories",
     delete_category_api |-> "categories",
     update_reminder_api |-> "reminders", delete_reminder_api |-> "reminders",
     update_planned_expense |-> "planned_expenses",
     delete_planned_expense |-> "planned_expenses",
     update_planned_expense_status |-> "planned_expenses"]

\* the rows of a table, by its name
Table(name) ==
    CASE name = "expenses" -> expenses
      [] name = "incomes" -> incomes
      [] name = "categories" -> categories
      [] name = "reminders" -> reminders
      [] name = "planned_expenses" -> planned

\* row k of the table exists and belongs to somebody other than u
OwnedByAnother(name, k, u) ==
    /\ k \in DOMAIN Table(name)
    /\ <<name, k>> \notin deleted
    /\ Table(name)[k].user_id # u

\* C28: an update or a delete of the dashboard API called by one user with
\* the id of another user's row answers 404 and changes no row of any table;
\* a caller who does not exist is answered 404 and no user comes to exist.
C28_OtherUsersRowsUntouched ==
    [][(answer'.action \in DOMAIN ApiTable /\ answer' # answer) =>
          /\ OwnedByAnother(ApiTable[answer'.action], answer'.id, answer'.user) =>
                /\ answer'.kind = "404"
                /\ UNCHANGED <<expenses, incomes, categories, reminders,
                               planned, deleted>>
          /\ answer'.user \notin ExistingUsers =>
                /\ answer'.kind = "404"
                /\ UNCHANGED <<expenses, incomes, categories, reminders,
                               planned, deleted>>
                /\ ExistingUsers' = ExistingUsers]_vars

\* user 2 exists and has asked for a row of user 1, which is still there,
\* and was refused
C28_Witness ==
    /\ answer.action \in DOMAIN ApiTable
    /\ answer.kind = "404"
    /\ answer.user \in ExistingUsers
    /\ OwnedByAnother(ApiTable[answer.action], answer.id, answer.user)

====
